---- MODULE Spec2Model ----
(***************************************************************************)
(* The programs of the Italian earthquake catalogue pipeline:              *)
(*   5_swarm.py           haversine and the mainshock / swarm pairing      *)
(*                        (calcola_dettagli_completi_sciami)               *)
(*   0_get_data.py        the catalogue fetch loop                         *)
(*   DB_reconciled_db.py  the loader of the reconciled database            *)
(*   DB_data_warehouse.py the loader of the star schema                    *)
(* Each program runs on its own: a specification moves the variables of    *)
(* one program and leaves those of the others idle.                        *)
(*                                                                         *)
(* Units of the fixed-point values (the code works on floats and           *)
(* nanosecond timestamps):                                                 *)
(*   time       whole seconds on the catalogue's time line                 *)
(*   latitude,  hundredths of a degree                                     *)
(*   longitude                                                             *)
(*   mag        tenths of a magnitude unit                                 *)
(*   distance   KmScale-ths of a kilometre (0.0001 km)                     *)
(*   days       DayScale-ths of a day (0.0001 d), the 4 decimals kept by   *)
(*              round(days_before, 4)                                      *)
(***************************************************************************)
EXTENDS Integers, Sequences, FiniteSets, TLC

VARIABLES
    csv,                    \* the input file: exists, columns, rows
    params,                 \* the arguments of calcola_dettagli_completi_sciami
    pc,                     \* position of the run inside the function
    df,                     \* the DataFrame after read_csv and cleaning
    df_earthquakes,         \* the working set
    potential_mainshocks,   \* the rows of the working set with mag >= threshold
    mi,                     \* number of mainshocks the outer loop has taken
    temporal_candidates,    \* the candidates of the current mainshock
    ci,                     \* number of candidates the inner loop has taken
    all_event_pairs_data,   \* the pairs accumulated so far
    output_file,            \* the output CSV: NoFile, or columns and rows
    run,                    \* 1 for the first call, 2 for the repeated call
    first_output,           \* what the first call left in the output file
    haversine_call,         \* one call of haversine: arguments and outcome
    evaluation,             \* one candidate taken through the window, the
                            \* radius test and the rounding
    fetch,                  \* 0_get_data.py: the fetch loop
    reconciled,             \* DB_reconciled_db.py: the file and the tables
    warehouse               \* DB_data_warehouse.py: the file and the tables

swarm_vars == <<csv, params, pc, df, df_earthquakes, potential_mainshocks, mi,
                temporal_candidates, ci, all_event_pairs_data, output_file,
                run, first_output>>

\* the variables of the programs other than the pairing
others == <<haversine_call, evaluation, fetch, reconciled, warehouse>>

vars == <<swarm_vars, others>>

\* a program that is not running
Idle == [pc |-> "idle"]

OthersIdle ==
    /\ haversine_call = Idle
    /\ evaluation = Idle
    /\ fetch = Idle
    /\ reconciled = Idle
    /\ warehouse = Idle

-----------------------------------------------------------------------------
(* Bounds and units *)

MaxEvents == 3

KmScale == 10^4
DayScale == 10^4
SecondsPerDay == 24 * 60 * 60

\* The value pd.to_numeric / pd.to_datetime (errors='coerce') leave in a cell
\* that is empty or does not parse.
NaN == -1
\* An empty cell of a string column.
NaNStr == "NaN"
\* Python's None: no country filter, and the default of Series.get.
None == "None"

-----------------------------------------------------------------------------
(* Strings: str.strip and str.lower on the strings of the catalogue *)

strip(s) ==
    CASE s = " Earthquake " -> "Earthquake"
      [] s = " italy " -> "italy"
      [] OTHER -> s

lower(s) ==
    CASE s = "Earthquake" -> "earthquake"
      [] s = " Earthquake " -> " earthquake "
      [] s = "Italy" -> "italy"
      [] s = "ITALY" -> "italy"
      [] s = "Greece" -> "greece"
      [] OTHER -> s

-----------------------------------------------------------------------------
(* haversine: the values the function returns on the points below, in     *)
(* KmScale-ths of a km (R = 6371), and the arguments on which it raises.   *)

HaversineTable ==
    (<<4200, 1300, 4200, 1300>> :> 0) @@
    (<<4200, 1300, 4210, 1305>> :> 118612) @@
    (<<4200, 1300, 3798, 2373>> :> 10165367) @@
    (<<4200, 1300, 0, 0>> :> 48487805) @@
    (<<4200, 1300, 0, 18000>> :> 151663063) @@
    (<<4200, 1300, 9000, 0>> :> 53373565) @@
    (<<4200, 1300, -9000, 0>> :> 146777303) @@
    (<<4200, 1300, -4200, -16700>> :> 200150868) @@
    (<<4200, 1300, 8750, 0>> :> 50667860) @@
    (<<4200, 1300, -8750, -18000>> :> 149483008) @@
    (<<4210, 1305, 4200, 1300>> :> 118612) @@
    (<<4210, 1305, 4210, 1305>> :> 0) @@
    (<<4210, 1305, 3798, 2373>> :> 10170564) @@
    (<<4210, 1305, 0, 0>> :> 48606385) @@
    (<<4210, 1305, 0, 18000>> :> 151544483) @@
    (<<4210, 1305, 9000, 0>> :> 53262370) @@
    (<<4210, 1305, -9000, 0>> :> 146888498) @@
    (<<4210, 1305, -4200, -16700>> :> 200032256) @@
    (<<4210, 1305, 8750, 0>> :> 50557244) @@
    (<<4210, 1305, -8750, -18000>> :> 149593624) @@
    (<<3798, 2373, 4200, 1300>> :> 10165367) @@
    (<<3798, 2373, 4210, 1305>> :> 10170564) @@
    (<<3798, 2373, 3798, 2373>> :> 0) @@
    (<<3798, 2373, 0, 0>> :> 48719715) @@
    (<<3798, 2373, 0, 18000>> :> 151431153) @@
    (<<3798, 2373, 9000, 0>> :> 57843601) @@
    (<<3798, 2373, -9000, 0>> :> 142307267) @@
    (<<3798, 2373, -4200, -16700>> :> 189985501) @@
    (<<3798, 2373, 8750, 0>> :> 55306814) @@
    (<<3798, 2373, -8750, -18000>> :> 144844054) @@
    (<<0, 0, 4200, 1300>> :> 48487805) @@
    (<<0, 0, 4210, 1305>> :> 48606385) @@
    (<<0, 0, 3798, 2373>> :> 48719715) @@
    (<<0, 0, 0, 0>> :> 0) @@
    (<<0, 0, 0, 18000>> :> 200150868) @@
    (<<0, 0, 9000, 0>> :> 100075434) @@
    (<<0, 0, -9000, 0>> :> 100075434) @@
    (<<0, 0, -4200, -16700>> :> 151663063) @@
    (<<0, 0, 8750, 0>> :> 97295561) @@
    (<<0, 0, -8750, -18000>> :> 102855307) @@
    (<<0, 18000, 4200, 1300>> :> 151663063) @@
    (<<0, 18000, 4210, 1305>> :> 151544483) @@
    (<<0, 18000, 3798, 2373>> :> 151431153) @@
    (<<0, 18000, 0, 0>> :> 200150868) @@
    (<<0, 18000, 0, 18000>> :> 0) @@
    (<<0, 18000, 9000, 0>> :> 100075434) @@
    (<<0, 18000, -9000, 0>> :> 100075434) @@
    (<<0, 18000, -4200, -16700>> :> 48487805) @@
    (<<0, 18000, 8750, 0>> :> 102855307) @@
    (<<0, 18000, -8750, -18000>> :> 97295561) @@
    (<<9000, 0, 4200, 1300>> :> 53373565) @@
    (<<9000, 0, 4210, 1305>> :> 53262370) @@
    (<<9000, 0, 3798, 2373>> :> 57843601) @@
    (<<9000, 0, 0, 0>> :> 100075434) @@
    (<<9000, 0, 0, 18000>> :> 100075434) @@
    (<<9000, 0, 9000, 0>> :> 0) @@
    (<<9000, 0, -9000, 0>> :> 200150868) @@
    (<<9000, 0, -4200, -16700>> :> 146777303) @@
    (<<9000, 0, 8750, 0>> :> 2779873) @@
    (<<9000, 0, -8750, -18000>> :> 197370995) @@
    (<<-9000, 0, 4200, 1300>> :> 146777303) @@
    (<<-9000, 0, 4210, 1305>> :> 146888498) @@
    (<<-9000, 0, 3798, 2373>> :> 142307267) @@
    (<<-9000, 0, 0, 0>> :> 100075434) @@
    (<<-9000, 0, 0, 18000>> :> 100075434) @@
    (<<-9000, 0, 9000, 0>> :> 200150868) @@
    (<<-9000, 0, -9000, 0>> :> 0) @@
    (<<-9000, 0, -4200, -16700>> :> 53373565) @@
    (<<-9000, 0, 8750, 0>> :> 197370995) @@
    (<<-9000, 0, -8750, -18000>> :> 2779873) @@
    (<<-4200, -16700, 4200, 1300>> :> 200150868) @@
    (<<-4200, -16700, 4210, 1305>> :> 200032256) @@
    (<<-4200, -16700, 3798, 2373>> :> 189985501) @@
    (<<-4200, -16700, 0, 0>> :> 151663063) @@
    (<<-4200, -16700, 0, 18000>> :> 48487805) @@
    (<<-4200, -16700, 9000, 0>> :> 146777303) @@
    (<<-4200, -16700, -9000, 0>> :> 53373565) @@
    (<<-4200, -16700, -4200, -16700>> :> 0) @@
    (<<-4200, -16700, 8750, 0>> :> 149483008) @@
    (<<-4200, -16700, -8750, -18000>> :> 50667860) @@
    (<<8750, 0, 4200, 1300>> :> 50667860) @@
    (<<8750, 0, 4210, 1305>> :> 50557244) @@
    (<<8750, 0, 3798, 2373>> :> 55306814) @@
    (<<8750, 0, 0, 0>> :> 97295561) @@
    (<<8750, 0, 0, 18000>> :> 102855307) @@
    (<<8750, 0, 9000, 0>> :> 2779873) @@
    (<<8750, 0, -9000, 0>> :> 197370995) @@
    (<<8750, 0, -4200, -16700>> :> 149483008) @@
    (<<8750, 0, 8750, 0>> :> 0) @@
    (<<-8750, -18000, 4200, 1300>> :> 149483008) @@
    (<<-8750, -18000, 4210, 1305>> :> 149593624) @@
    (<<-8750, -18000, 3798, 2373>> :> 144844054) @@
    (<<-8750, -18000, 0, 0>> :> 102855307) @@
    (<<-8750, -18000, 0, 18000>> :> 97295561) @@
    (<<-8750, -18000, 9000, 0>> :> 197370995) @@
    (<<-8750, -18000, -9000, 0>> :> 2779873) @@
    (<<-8750, -18000, -4200, -16700>> :> 50667860) @@
    (<<-8750, -18000, -8750, -18000>> :> 0)

\* The arguments on which 1 - a is below zero by the rounding of the floats:
\* sqrt(1 - a) raises ValueError (math domain error).
MathDomainError ==
    {<<8750, 0, -8750, -18000>>,
     <<-8750, -18000, 8750, 0>>}

\* The points the calls are made on: the catalogue's three points, the
\* equator at longitudes 0 and 180, the poles, the antipode of (42.00, 13.00),
\* and the antipodes (87.50, 0.00) and (-87.50, -180.00).
Points ==
    {<<4200, 1300>>,
     <<4210, 1305>>,
     <<3798, 2373>>,
     <<0, 0>>,
     <<0, 18000>>,
     <<9000, 0>>,
     <<-9000, 0>>,
     <<-4200, -16700>>,
     <<8750, 0>>,
     <<-8750, -18000>>}

haversine(lat1, lon1, lat2, lon2) ==
    HaversineTable[<<lat1, lon1, lat2, lon2>>]

\* round(x, n) on a value num/den of the target unit: nearest, no tie occurs
\* on the modelled values (a tie is decided by the float's error).
RoundDiv(num, den) ==
    LET q == num \div den
        r == num % den
    IN  IF 2 * r >= den THEN q + 1 ELSE q

\* round(distance, 2), kept in KmScale-ths of a km
round2(distance) ==
    RoundDiv(distance, KmScale \div 100) * (KmScale \div 100)

\* round((ms_time - cs_time).total_seconds() / (24 * 60 * 60), 4)
days_before_rounded(ms_time, cs_time) ==
    LET s == ms_time - cs_time
    IN  (s \div SecondsPerDay) * DayScale
        + RoundDiv((s % SecondsPerDay) * DayScale, SecondsPerDay)

-----------------------------------------------------------------------------
(* The inputs: CSV files built from a small catalogue of rows *)

AllColumns ==
    {"ID", "time", "latitude", "longitude", "depth", "mag", "type", "country",
     "fault", "location"}

Row(id, time, lat, lon, depth, mag, type, country, fault, location) ==
    [ID |-> id, time |-> time, latitude |-> lat, longitude |-> lon,
     depth |-> depth, mag |-> mag, type |-> type, country |-> country,
     fault |-> fault, location |-> location]

\* The mainshock time T of the scenarios of the specification.
TRef == 50 * SecondsPerDay

\* A, B, C: the events of the concrete scenario (A at T, B at T - 5 days,
\* C at T - 40 days).  BGreece: B with country Greece.
EventA == Row(1, TRef, 4200, 1300, 10, 45, "earthquake", "Italy", "F1", "L1")
EventB == Row(2, TRef - 5 * SecondsPerDay, 4210, 1305, NaN, 20, "earthquake",
              "Italy", NaNStr, "L2")
EventC == Row(3, TRef - 40 * SecondsPerDay, 4210, 1305, 8, 20, "earthquake",
              "Italy", "F1", NaNStr)
EventBGreece == [EventB EXCEPT !.country = "Greece"]
\* On the closed lower bound of A's 29-day window, at A's coordinates, larger
\* than A, type and country written with blanks and another case.
EventD == Row(4, TRef - 29 * SecondsPerDay, 4200, 1300, 5, 50, " Earthquake ",
              " italy ", "F2", "L1")
\* One second before the lower bound of A's 29-day window (one second before
\* D and F, at their coordinates), at the magnitude threshold.
EventE == Row(5, TRef - 29 * SecondsPerDay - 1, 4200, 1300, 12, 30,
              "earthquake", "Greece", NaNStr, NaNStr)
\* On the closed lower bound of A's 29-day window and carrying A's ID.
EventF == Row(1, TRef - 29 * SecondsPerDay, 4200, 1300, 7, 35, "earthquake",
              "Italy", "F1", "L1")
\* At A's instant under another ID, far away from every other event.
EventS == Row(6, TRef, 3798, 2373, 9, 30, "earthquake", "Italy", "F2", "L2")
\* Not an earthquake.
EventQ == Row(7, TRef - 5 * SecondsPerDay, 4200, 1300, 0, 40, "quarry blast",
              "Italy", NaNStr, "L1")
\* A magnitude cell that does not parse.
EventN == Row(8, TRef - 5 * SecondsPerDay, 4200, 1300, 3, NaN, "earthquake",
              "Italy", "F1", "L1")

Catalogue ==
    {EventA, EventB, EventC, EventBGreece, EventD, EventE, EventF, EventS,
     EventQ, EventN}

\* The headers: every column; the USGS name 'id' in place of 'ID'; and one
\* without country, time, depth, or fault and location.
Headers ==
    {AllColumns,
     (AllColumns \ {"ID"}) \cup {"id"},
     AllColumns \ {"country"},
     AllColumns \ {"time"},
     AllColumns \ {"depth"},
     AllColumns \ {"fault", "location"}}

NumericColumns == {"ID", "time", "latitude", "longitude", "depth", "mag"}

\* A row as read from a file with these columns: a column the file does not
\* have holds nothing.  A cell holds what the coercion of the cleaning step
\* makes of its text: the parsed value, or NaN when it is empty or does not
\* parse.  IDs are whole numbers, which astype(int) leaves as they are.
read_row(row, columns) ==
    [col \in AllColumns |->
        IF col \in columns THEN row[col]
        ELSE IF col \in NumericColumns THEN NaN ELSE NaNStr]

SeqsUpTo(S, n) == UNION {[1..k -> S] : k \in 0..n}

MissingFile == [exists |-> FALSE, columns |-> {}, rows |-> <<>>]

CsvFiles ==
    {MissingFile} \cup
    {[exists |-> TRUE, columns |-> h,
      rows |-> [i \in 1..Len(r) |-> read_row(r[i], h)]] :
        h \in Headers, r \in SeqsUpTo(Catalogue, MaxEvents)}

MinMags == {10, 30}
DayWindows == {0, 29}
Radii == {0, 500}
CountryFilters == {None, "Italy"}

InDomainParams ==
    [min_mag_mainshock_script : MinMags,
     max_days_before_script : DayWindows,
     max_search_radius_km_script : Radii,
     country_to_filter : CountryFilters]

\* The values of the script (3.0, 29 days, 500 km, "Italy")
ScriptParams ==
    [min_mag_mainshock_script |-> 30,
     max_days_before_script |-> 29,
     max_search_radius_km_script |-> 500,
     country_to_filter |-> "Italy"]

\* A negative radius, a negative day window: the function takes any number.
OutOfDomainParams ==
    {[ScriptParams EXCEPT !.max_search_radius_km_script = -1],
     [ScriptParams EXCEPT !.max_days_before_script = -1]}

Params == InDomainParams \cup OutOfDomainParams

NoFile == [written |-> FALSE, columns |-> <<>>, rows |-> <<>>]

-----------------------------------------------------------------------------
(* Helpers of the run *)

\* Faulty variant: dropna without the subset, so that a row with any empty
\* cell goes.
required_present_any_cell(row) ==
    /\ row.time # NaN
    /\ row.latitude # NaN
    /\ row.longitude # NaN
    /\ row.mag # NaN
    /\ row.type # NaNStr
    /\ row.country # NaNStr
    /\ row.ID # NaN
    /\ row.depth # NaN
    /\ row.fault # NaNStr
    /\ row.location # NaNStr

\* df.dropna(subset=required_cols_for_analysis): a row stays when none of
\* the required cells is NaN / NaT.
required_present(row) ==
    /\ row.time # NaN
    /\ row.latitude # NaN
    /\ row.longitude # NaN
    /\ row.mag # NaN
    /\ row.type # NaNStr
    /\ row.country # NaNStr
    /\ row.ID # NaN

\* df['type'].astype(str).str.strip().str.lower() == 'earthquake'
is_earthquake(row) == lower(strip(row.type)) = "earthquake"

\* country.notna() & (country.astype(str).str.strip().str.lower()
\*                    == country_to_filter.lower())
country_matches(row, country_to_filter) ==
    /\ row.country # NaNStr
    /\ lower(strip(row.country)) = lower(country_to_filter)

\* Faulty variant: the country filter is never applied.
working_set_any_country(frame, country_to_filter) ==
    SelectSeq(frame, is_earthquake)

working_set(frame, country_to_filter) ==
    LET quakes == SelectSeq(frame, is_earthquake)
        Keep(row) == country_matches(row, country_to_filter)
    IN  IF country_to_filter # None
        THEN SelectSeq(quakes, Keep)
        ELSE quakes

\* Faulty variant: a magnitude equal to the threshold is not a mainshock.
select_mainshocks_strict(frame, min_mag) ==
    LET Keep(row) == row.mag > min_mag
    IN  SelectSeq(frame, Keep)

\* Faulty variant: the mainshocks sorted, the largest magnitude first.
select_mainshocks_by_magnitude(frame, min_mag) ==
    LET Keep(row) == row.mag >= min_mag
        Larger(a, b) == a.mag > b.mag
    IN  SortSeq(SelectSeq(frame, Keep), Larger)

select_mainshocks(frame, min_mag) ==
    LET Keep(row) == row.mag >= min_mag
    IN  SelectSeq(frame, Keep)

\* Faulty variants of the candidate filter: the upper bound closed; the lower
\* bound open; no test of the ID; the window taken on the wrong side of its
\* start; no lower bound.
find_temporal_candidates_closed_upper(frame, ms_id, ms_time, max_days_before) ==
    LET max_swarm_time_start == ms_time - max_days_before * SecondsPerDay
        Keep(row) ==
            /\ row.time >= max_swarm_time_start
            /\ row.time <= ms_time
            /\ row.ID # ms_id
    IN  SelectSeq(frame, Keep)

find_temporal_candidates_open_lower(frame, ms_id, ms_time, max_days_before) ==
    LET max_swarm_time_start == ms_time - max_days_before * SecondsPerDay
        Keep(row) ==
            /\ row.time > max_swarm_time_start
            /\ row.time < ms_time
            /\ row.ID # ms_id
    IN  SelectSeq(frame, Keep)

find_temporal_candidates_any_id(frame, ms_id, ms_time, max_days_before) ==
    LET max_swarm_time_start == ms_time - max_days_before * SecondsPerDay
        Keep(row) ==
            /\ row.time >= max_swarm_time_start
            /\ row.time < ms_time
    IN  SelectSeq(frame, Keep)

find_temporal_candidates_older(frame, ms_id, ms_time, max_days_before) ==
    LET max_swarm_time_start == ms_time - max_days_before * SecondsPerDay
        Keep(row) ==
            /\ row.time <= max_swarm_time_start
            /\ row.time < ms_time
            /\ row.ID # ms_id
    IN  SelectSeq(frame, Keep)

find_temporal_candidates_unbounded(frame, ms_id, ms_time, max_days_before) ==
    LET Keep(row) ==
            /\ row.time < ms_time
            /\ row.ID # ms_id
    IN  SelectSeq(frame, Keep)

\* Faulty variant: the test of the ID reversed.
find_temporal_candidates_same_id(frame, ms_id, ms_time, max_days_before) ==
    LET max_swarm_time_start == ms_time - max_days_before * SecondsPerDay
        Keep(row) ==
            /\ row.time >= max_swarm_time_start
            /\ row.time < ms_time
            /\ row.ID = ms_id
    IN  SelectSeq(frame, Keep)

\* Faulty variant: the window reaches as far after the mainshock as before.
find_temporal_candidates_two_sided(frame, ms_id, ms_time, max_days_before) ==
    LET max_swarm_time_start == ms_time - max_days_before * SecondsPerDay
        Keep(row) ==
            /\ row.time >= max_swarm_time_start
            /\ row.time <= ms_time + max_days_before * SecondsPerDay
            /\ row.ID # ms_id
    IN  SelectSeq(frame, Keep)

\* The rows of the working set inside the window of the mainshock.
find_temporal_candidates(frame, ms_id, ms_time, max_days_before) ==
    LET max_swarm_time_start == ms_time - max_days_before * SecondsPerDay
        Keep(row) ==
            /\ row.time >= max_swarm_time_start
            /\ row.time < ms_time
            /\ row.ID # ms_id
    IN  SelectSeq(frame, Keep)

\* Faulty variant: the comparison with the radius reversed.
within_radius_reversed(distance, max_search_radius_km) ==
    distance >= max_search_radius_km * KmScale

within_radius(distance, max_search_radius_km) ==
    distance <= max_search_radius_km * KmScale

\* Faulty variant: an empty string stands for a column the frame lacks.
get_default_empty(row, col, columns) ==
    IF col \in columns THEN row[col] ELSE ""

\* Series.get(col, None)
get(row, col, columns) ==
    IF col \in columns THEN row[col] ELSE None

output_columns ==
    <<"MS_ID", "MS_Time", "MS_Lat", "MS_Lon", "MS_Mag", "MS_Depth",
      "MS_Country", "MS_Fault", "MS_location",
      "CS_ID", "CS_Time", "CS_Lat", "CS_Lon", "CS_Mag", "CS_Depth",
      "CS_Country", "CS_Fault", "CS_location",
      "Days_Before_Exact", "Distance_Exact_km">>

make_pair(ms, cs, distance, columns) ==
    [MS_ID |-> ms.ID, MS_Time |-> ms.time, MS_Lat |-> ms.latitude,
     MS_Lon |-> ms.longitude, MS_Mag |-> ms.mag, MS_Depth |-> ms.depth,
     MS_Country |-> ms.country,
     MS_Fault |-> get(ms, "fault", columns),
     MS_location |-> get(ms, "location", columns),
     CS_ID |-> cs.ID, CS_Time |-> cs.time, CS_Lat |-> cs.latitude,
     CS_Lon |-> cs.longitude, CS_Mag |-> cs.mag, CS_Depth |-> cs.depth,
     CS_Country |-> cs.country,
     CS_Fault |-> get(cs, "fault", columns),
     CS_location |-> get(cs, "location", columns),
     Days_Before_Exact |-> days_before_rounded(ms.time, cs.time),
     Distance_Exact_km |-> round2(distance)]

-----------------------------------------------------------------------------
(* The run of calcola_dettagli_completi_sciami *)

Init ==
    /\ csv \in CsvFiles
    /\ params \in Params
    /\ pc = "read"
    /\ df = <<>>
    /\ df_earthquakes = <<>>
    /\ potential_mainshocks = <<>>
    /\ mi = 0
    /\ temporal_candidates = <<>>
    /\ ci = 0
    /\ all_event_pairs_data = <<>>
    /\ output_file = NoFile
    /\ run = 1
    /\ first_output = NoFile
    /\ OthersIdle

\* pd.read_csv succeeds
ReadCsv ==
    /\ pc = "read"
    /\ csv.exists
    /\ df' = csv.rows
    /\ pc' = "clean"
    /\ UNCHANGED <<csv, params, df_earthquakes, potential_mainshocks, mi,
                   temporal_candidates, ci, all_event_pairs_data, output_file,
                   run, first_output>>
    /\ UNCHANGED others

\* pd.read_csv raises (FileNotFoundError or another exception): return
ReadCsvFails ==
    /\ pc = "read"
    /\ ~csv.exists
    /\ pc' = "returned"
    /\ UNCHANGED <<csv, params, df, df_earthquakes, potential_mainshocks, mi,
                   temporal_candidates, ci, all_event_pairs_data, output_file,
                   run, first_output>>
    /\ UNCHANGED others

\* df['time'] on a frame without that column: KeyError, not caught
CleanNoTimeColumn ==
    /\ pc = "clean"
    /\ "time" \notin csv.columns
    /\ pc' = "raised"
    /\ UNCHANGED <<csv, params, df, df_earthquakes, potential_mainshocks, mi,
                   temporal_candidates, ci, all_event_pairs_data, output_file,
                   run, first_output>>
    /\ UNCHANGED others

\* Faulty variant: the renamed 'id' column stands in for 'ID' and the call
\* goes on.
CleanNoIDColumnProceeds ==
    /\ pc = "clean"
    /\ "time" \in csv.columns
    /\ "ID" \notin csv.columns
    /\ pc' = "filter"
    /\ UNCHANGED <<csv, params, df, df_earthquakes, potential_mainshocks, mi,
                   temporal_candidates, ci, all_event_pairs_data, output_file,
                   run, first_output>>
    /\ UNCHANGED others

\* no 'ID' column (an 'id' column is renamed to original_event_id): return
CleanNoIDColumn ==
    /\ pc = "clean"
    /\ "time" \in csv.columns
    /\ "ID" \notin csv.columns
    /\ pc' = "returned"
    /\ UNCHANGED <<csv, params, df, df_earthquakes, potential_mainshocks, mi,
                   temporal_candidates, ci, all_event_pairs_data, output_file,
                   run, first_output>>
    /\ UNCHANGED others

required_cols_for_analysis ==
    {"time", "latitude", "longitude", "mag", "type", "country", "ID"}

\* a required column is missing: return
CleanMissingRequired ==
    /\ pc = "clean"
    /\ "time" \in csv.columns
    /\ "ID" \in csv.columns
    /\ ~(required_cols_for_analysis \subseteq csv.columns)
    /\ pc' = "returned"
    /\ UNCHANGED <<csv, params, df, df_earthquakes, potential_mainshocks, mi,
                   temporal_candidates, ci, all_event_pairs_data, output_file,
                   run, first_output>>
    /\ UNCHANGED others

\* coercion, dropna on the required columns, ID to int
Clean ==
    /\ pc = "clean"
    /\ required_cols_for_analysis \subseteq csv.columns
    /\ df' = SelectSeq(df, required_present)
    /\ pc' = "filter"
    /\ UNCHANGED <<csv, params, df_earthquakes, potential_mainshocks, mi,
                   temporal_candidates, ci, all_event_pairs_data, output_file,
                   run, first_output>>
    /\ UNCHANGED others

\* type 'earthquake', then the country filter when one is set
FilterWorkingSet ==
    /\ pc = "filter"
    /\ df_earthquakes' = working_set(df, params.country_to_filter)
    /\ pc' = "select"
    /\ UNCHANGED <<csv, params, df, potential_mainshocks, mi,
                   temporal_candidates, ci, all_event_pairs_data, output_file,
                   run, first_output>>
    /\ UNCHANGED others

SelectMainshocks ==
    /\ pc = "select"
    /\ potential_mainshocks' =
           select_mainshocks(df_earthquakes, params.min_mag_mainshock_script)
    /\ pc' = "branch"
    /\ UNCHANGED <<csv, params, df, df_earthquakes, mi, temporal_candidates,
                   ci, all_event_pairs_data, output_file, run, first_output>>
    /\ UNCHANGED others

\* Faulty variant: the empty path returns without writing the header.
EmptyMainshocksNoWrite ==
    /\ pc = "branch"
    /\ potential_mainshocks = <<>>
    /\ pc' = "done"
    /\ UNCHANGED <<csv, params, df, df_earthquakes, potential_mainshocks, mi,
                   temporal_candidates, ci, all_event_pairs_data, output_file,
                   run, first_output>>
    /\ UNCHANGED others

\* potential_mainshocks.empty: write the header alone and return
EmptyMainshocks ==
    /\ pc = "branch"
    /\ potential_mainshocks = <<>>
    /\ output_file' =
           [written |-> TRUE, columns |-> output_columns, rows |-> <<>>]
    /\ pc' = "done"
    /\ UNCHANGED <<csv, params, df, df_earthquakes, potential_mainshocks, mi,
                   temporal_candidates, ci, all_event_pairs_data, run,
                   first_output>>
    /\ UNCHANGED others

\* Faulty variant: the accumulator outlives the call (it is not emptied).
StartScanKeepsPairs ==
    /\ pc = "branch"
    /\ potential_mainshocks # <<>>
    /\ mi' = 0
    /\ temporal_candidates' = <<>>
    /\ ci' = 0
    /\ pc' = "loop"
    /\ UNCHANGED <<csv, params, df, df_earthquakes, potential_mainshocks,
                   all_event_pairs_data, output_file, run, first_output>>
    /\ UNCHANGED others

\* all_event_pairs_data = [] and mainshock_count_processed = 0
StartScan ==
    /\ pc = "branch"
    /\ potential_mainshocks # <<>>
    /\ all_event_pairs_data' = <<>>
    /\ mi' = 0
    /\ temporal_candidates' = <<>>
    /\ ci' = 0
    /\ pc' = "loop"
    /\ UNCHANGED <<csv, params, df, df_earthquakes, potential_mainshocks,
                   output_file, run, first_output>>
    /\ UNCHANGED others

\* Faulty variant: the candidate filter narrows the working set itself.
NextMainshockFiltersInPlace ==
    /\ pc = "loop"
    /\ ci = Len(temporal_candidates)
    /\ mi < Len(potential_mainshocks)
    /\ "depth" \in csv.columns
    /\ LET mainshock_row == potential_mainshocks[mi + 1]
       IN  temporal_candidates' =
               find_temporal_candidates(df_earthquakes, mainshock_row.ID,
                                        mainshock_row.time,
                                        params.max_days_before_script)
    /\ df_earthquakes' = temporal_candidates'
    /\ mi' = mi + 1
    /\ ci' = 0
    /\ UNCHANGED <<csv, params, pc, df, potential_mainshocks,
                   all_event_pairs_data, output_file, run, first_output>>
    /\ UNCHANGED others

\* the next mainshock: its details and its temporal candidates
NextMainshock ==
    /\ pc = "loop"
    /\ ci = Len(temporal_candidates)
    /\ mi < Len(potential_mainshocks)
    /\ "depth" \in csv.columns
    /\ LET mainshock_row == potential_mainshocks[mi + 1]
       IN  temporal_candidates' =
               find_temporal_candidates(df_earthquakes, mainshock_row.ID,
                                        mainshock_row.time,
                                        params.max_days_before_script)
    /\ mi' = mi + 1
    /\ ci' = 0
    /\ UNCHANGED <<csv, params, pc, df, df_earthquakes, potential_mainshocks,
                   all_event_pairs_data, output_file, run, first_output>>
    /\ UNCHANGED others

\* mainshock_row['depth'] on a frame without that column: KeyError
MainshockNoDepthColumn ==
    /\ pc = "loop"
    /\ ci = Len(temporal_candidates)
    /\ mi < Len(potential_mainshocks)
    /\ "depth" \notin csv.columns
    /\ pc' = "raised"
    /\ UNCHANGED <<csv, params, df, df_earthquakes, potential_mainshocks, mi,
                   temporal_candidates, ci, all_event_pairs_data, output_file,
                   run, first_output>>
    /\ UNCHANGED others

\* one candidate: its distance, and the pair when it is within the radius
append_pair(pairs, ms, cs, columns, max_search_radius_km) ==
    LET distance == haversine(ms.latitude, ms.longitude,
                              cs.latitude, cs.longitude)
    IN  IF within_radius(distance, max_search_radius_km)
        THEN Append(pairs, make_pair(ms, cs, distance, columns))
        ELSE pairs

EvalCandidate ==
    /\ pc = "loop"
    /\ ci < Len(temporal_candidates)
    /\ all_event_pairs_data' =
           append_pair(all_event_pairs_data, potential_mainshocks[mi],
                       temporal_candidates[ci + 1], csv.columns,
                       params.max_search_radius_km_script)
    /\ ci' = ci + 1
    /\ UNCHANGED <<csv, params, pc, df, df_earthquakes, potential_mainshocks,
                   mi, temporal_candidates, output_file, run, first_output>>
    /\ UNCHANGED others

\* pd.DataFrame(all_event_pairs_data, columns=output_columns).to_csv(...)
WriteOutput ==
    /\ pc = "loop"
    /\ ci = Len(temporal_candidates)
    /\ mi = Len(potential_mainshocks)
    /\ output_file' = [written |-> TRUE, columns |-> output_columns,
                       rows |-> all_event_pairs_data]
    /\ pc' = "done"
    /\ UNCHANGED <<csv, params, df, df_earthquakes, potential_mainshocks, mi,
                   temporal_candidates, ci, all_event_pairs_data, run,
                   first_output>>
    /\ UNCHANGED others

Finished == pc \in {"done", "returned", "raised"}

\* The function is called again on the same file with the same arguments.
\* The locals of the first call are gone: every one is assigned again before
\* the second call reads it.
Rerun ==
    /\ Finished
    /\ run = 1
    /\ run' = 2
    /\ first_output' = output_file
    /\ pc' = "read"
    /\ UNCHANGED <<csv, params, df, df_earthquakes, potential_mainshocks, mi,
                   temporal_candidates, ci, all_event_pairs_data, output_file>>
    /\ UNCHANGED others

Next ==
    \/ ReadCsv
    \/ ReadCsvFails
    \/ CleanNoTimeColumn
    \/ CleanNoIDColumn
    \/ CleanMissingRequired
    \/ Clean
    \/ FilterWorkingSet
    \/ SelectMainshocks
    \/ EmptyMainshocks
    \/ StartScan
    \/ NextMainshock
    \/ MainshockNoDepthColumn
    \/ EvalCandidate
    \/ WriteOutput

\* One call of the function.
Spec == Init /\ [][Next]_vars

NextRepeat ==
    \/ Next
    \/ Rerun

\* The function called twice on the same file with the same arguments.
SpecRepeat == Init /\ [][NextRepeat]_vars

-----------------------------------------------------------------------------
(* One call on files whose rows lack cells: every required cell in turn,   *)
(* and the optional cells.                                                 *)

empty_cell(col) == IF col \in NumericColumns THEN NaN ELSE NaNStr

\* D without one of its cells
EventDWithout(col) == [EventD EXCEPT ![col] = empty_cell(col)]

\* D without any of its optional cells
EventDNoOptional ==
    [EventD EXCEPT !.depth = NaN, !.fault = NaNStr, !.location = NaNStr]

LoadCatalogue ==
    {EventA, EventB, EventDNoOptional}
        \cup {EventDWithout(col) : col \in required_cols_for_analysis}

LoadCsvFiles ==
    {MissingFile} \cup
    {[exists |-> TRUE, columns |-> h,
      rows |-> [i \in 1..Len(r) |-> read_row(r[i], h)]] :
        h \in Headers, r \in SeqsUpTo(LoadCatalogue, MaxEvents)}

LoadParams == {ScriptParams, [ScriptParams EXCEPT !.country_to_filter = None]}

InitLoad ==
    /\ csv \in LoadCsvFiles
    /\ params \in LoadParams
    /\ pc = "read"
    /\ df = <<>>
    /\ df_earthquakes = <<>>
    /\ potential_mainshocks = <<>>
    /\ mi = 0
    /\ temporal_candidates = <<>>
    /\ ci = 0
    /\ all_event_pairs_data = <<>>
    /\ output_file = NoFile
    /\ run = 1
    /\ first_output = NoFile
    /\ OthersIdle

SpecLoad == InitLoad /\ [][Next]_vars

-----------------------------------------------------------------------------
(* The pairing as a function of the cleaned frame and the arguments: the   *)
(* two loops folded over the mainshocks and over their candidates.         *)

RECURSIVE scan_candidates(_, _, _, _, _)
scan_candidates(pairs, ms, candidates, columns, max_search_radius_km) ==
    IF candidates = <<>>
    THEN pairs
    ELSE scan_candidates(
             append_pair(pairs, ms, Head(candidates), columns,
                         max_search_radius_km),
             ms, Tail(candidates), columns, max_search_radius_km)

RECURSIVE scan_mainshocks(_, _, _, _, _)
scan_mainshocks(pairs, mainshocks, frame, columns, p) ==
    IF mainshocks = <<>>
    THEN pairs
    ELSE LET ms == Head(mainshocks)
             candidates ==
                 find_temporal_candidates(frame, ms.ID, ms.time,
                                          p.max_days_before_script)
         IN  scan_mainshocks(
                 scan_candidates(pairs, ms, candidates, columns,
                                 p.max_search_radius_km_script),
                 Tail(mainshocks), frame, columns, p)

find_pairs(frame, columns, p) ==
    LET quakes == working_set(frame, p.country_to_filter)
    IN  scan_mainshocks(<<>>,
                        select_mainshocks(quakes, p.min_mag_mainshock_script),
                        quakes, columns, p)

-----------------------------------------------------------------------------
(* Properties *)

Range(s) == {s[i] : i \in DOMAIN s}

Occurrences(s, x) == Cardinality({i \in DOMAIN s : s[i] = x})

IsSubBag(s, t) == \A x \in Range(s) : Occurrences(s, x) <= Occurrences(t, x)

\* Every pair the run has produced: accumulated or written.
PairsSoFar == Range(all_event_pairs_data) \cup Range(output_file.rows)

\* temporal_candidates holds the candidates of the mainshock CurrentMainshock
InScan == pc \in {"loop", "done"} /\ mi >= 1

CurrentMainshock == potential_mainshocks[mi]

WindowStart ==
    CurrentMainshock.time - params.max_days_before_script * SecondsPerDay

IsCandidate(e) == e \in Range(temporal_candidates)

\* The fold agrees with the loops: what a completed run writes is find_pairs
\* of its cleaned frame.
LoopsComputeFindPairs ==
    pc = "done" => output_file.rows = find_pairs(df, csv.columns, params)

(* ------------------------------ C1 ------------------------------------ *)

InWorkingSet(e) ==
    /\ is_earthquake(e)
    /\ \/ params.country_to_filter = None
       \/ country_matches(e, params.country_to_filter)

Qualifies(m, c) ==
    /\ m.mag >= params.min_mag_mainshock_script
    /\ m.time - params.max_days_before_script * SecondsPerDay <= c.time
    /\ c.time < m.time
    /\ c.ID # m.ID
    /\ haversine(m.latitude, m.longitude, c.latitude, c.longitude)
           <= params.max_search_radius_km_script * KmScale

WorkingIndices == {i \in DOMAIN df : InWorkingSet(df[i])}

QualifyingPairs ==
    {ij \in WorkingIndices \X WorkingIndices : Qualifies(df[ij[1]], df[ij[2]])}

EventKey(e) ==
    <<e.ID, e.time, e.latitude, e.longitude, e.mag, e.depth, e.country>>

PairKey(p) ==
    <<<<p.MS_ID, p.MS_Time, p.MS_Lat, p.MS_Lon, p.MS_Mag, p.MS_Depth,
        p.MS_Country>>,
      <<p.CS_ID, p.CS_Time, p.CS_Lat, p.CS_Lon, p.CS_Mag, p.CS_Depth,
        p.CS_Country>>>>

KeyOfIndices(ij) == <<EventKey(df[ij[1]]), EventKey(df[ij[2]])>>

\* C1: when the run completes, the rows written are exactly the ordered
\* pairs (m, c) of events of the working set with m.mag >= min_mainshock_mag,
\* m.time - max_days_before <= c.time < m.time, c.ID # m.ID and
\* haversine(m, c) <= max_radius_km: every written row is such a pair, and
\* every such pair is written as many times as there are pairs of store rows
\* carrying those two events (once per pair of rows).
C1_ExactlyTheQualifyingPairs ==
    pc = "done" =>
        LET rows == output_file.rows
        IN  /\ \A k \in DOMAIN rows :
                   \E ij \in QualifyingPairs : KeyOfIndices(ij) = PairKey(rows[k])
            /\ \A ij \in QualifyingPairs :
                   Cardinality({k \in DOMAIN rows :
                                    PairKey(rows[k]) = KeyOfIndices(ij)})
                   = Cardinality({xy \in QualifyingPairs :
                                    KeyOfIndices(xy) = KeyOfIndices(ij)})

\* A completed run that wrote two pairs or more and left out a pair of
\* working-set events whose first event is a mainshock.
C1_Witness ==
    /\ pc = "done"
    /\ Len(output_file.rows) >= 2
    /\ \E i, j \in WorkingIndices :
           /\ i # j
           /\ df[i].mag >= params.min_mag_mainshock_script
           /\ <<i, j>> \notin QualifyingPairs

(* ------------------------------ C2 ------------------------------------ *)

\* C2 as stated: for the mainshock at T and the window W, an event of the
\* working set at exactly T is no candidate, one at exactly T - W days is a
\* candidate, one earlier than T - W days is no candidate.
C2_HalfOpenWindowAsStated ==
    InScan =>
        \A e \in Range(df_earthquakes) :
            /\ e.time = CurrentMainshock.time => ~IsCandidate(e)
            /\ e.time = WindowStart => IsCandidate(e)
            /\ e.time < WindowStart => ~IsCandidate(e)

\* C2 (amended): an event at exactly T is no candidate; an event earlier
\* than T - W days is no candidate; an event at exactly T - W days is a
\* candidate when W > 0 and its ID is not the mainshock's.
C2_HalfOpenWindow ==
    InScan =>
        \A e \in Range(df_earthquakes) :
            /\ e.time = CurrentMainshock.time => ~IsCandidate(e)
            /\ ( /\ e.time = WindowStart
                 /\ params.max_days_before_script > 0
                 /\ e.ID # CurrentMainshock.ID ) => IsCandidate(e)
            /\ e.time < WindowStart => ~IsCandidate(e)

\* A mainshock with a 29-day window, an event on the lower bound that is a
\* candidate, an event one second earlier that is not, and an event at the
\* mainshock's instant that is not.
C2_Witness ==
    /\ InScan
    /\ params.max_days_before_script = 29
    /\ \E e \in Range(df_earthquakes) :
           e.time = WindowStart /\ IsCandidate(e)
    /\ \E e \in Range(df_earthquakes) :
           e.time = WindowStart - 1 /\ ~IsCandidate(e)
    /\ \E e \in Range(df_earthquakes) :
           e.time = CurrentMainshock.time /\ ~IsCandidate(e)

(* ------------------------------ C3 ------------------------------------ *)

\* C3: no pair, accumulated or written, has the candidate's ID equal to the
\* mainshock's ID.
C3_NoSelfPairing ==
    \A p \in PairsSoFar : p.CS_ID # p.MS_ID

\* A completed run that wrote a pair although its working set held two
\* events with one ID, the second inside the window and the radius of the
\* first, a mainshock.
C3_Witness ==
    /\ pc = "done"
    /\ output_file.rows # <<>>
    /\ \E i, j \in DOMAIN df_earthquakes :
           LET m == df_earthquakes[i]
               c == df_earthquakes[j]
           IN  /\ i # j
               /\ m.ID = c.ID
               /\ m.mag >= params.min_mag_mainshock_script
               /\ m.time - params.max_days_before_script * SecondsPerDay
                      <= c.time
               /\ c.time < m.time
               /\ within_radius(haversine(m.latitude, m.longitude,
                                          c.latitude, c.longitude),
                                params.max_search_radius_km_script)

(* --------------------------- C4 and C5 --------------------------------- *)

RadiusChoices == {0, 12, 500, 1100}
DayChoices == {0, 5, 29, 40}

PairsWithRadius(r) ==
    find_pairs(df, csv.columns,
               [params EXCEPT !.max_search_radius_km_script = r])

PairsWithDays(d) ==
    find_pairs(df, csv.columns, [params EXCEPT !.max_days_before_script = d])

\* C4: the pairs of a completed run contain the pairs of the same input
\* under every smaller radius and are contained in the pairs under every
\* larger radius (as bags, so the counts are ordered too).
C4_RadiusMonotone ==
    pc = "done" =>
        \A r \in RadiusChoices :
            /\ r <= params.max_search_radius_km_script
                   => IsSubBag(PairsWithRadius(r), output_file.rows)
            /\ r >= params.max_search_radius_km_script
                   => IsSubBag(output_file.rows, PairsWithRadius(r))

\* A completed run whose pairs are strictly more than the pairs under a
\* smaller radius, which are not none.
C4_Witness ==
    /\ pc = "done"
    /\ \E r \in RadiusChoices :
           /\ r < params.max_search_radius_km_script
           /\ PairsWithRadius(r) # <<>>
           /\ Len(PairsWithRadius(r)) < Len(output_file.rows)

\* C5: the pairs of a completed run contain the pairs of the same input
\* under every shorter day window and are contained in the pairs under every
\* longer one.
C5_DayWindowMonotone ==
    pc = "done" =>
        \A d \in DayChoices :
            /\ d <= params.max_days_before_script
                   => IsSubBag(PairsWithDays(d), output_file.rows)
            /\ d >= params.max_days_before_script
                   => IsSubBag(output_file.rows, PairsWithDays(d))

\* A completed run whose pairs are strictly more than the pairs under a
\* shorter window, which are not none.
C5_Witness ==
    /\ pc = "done"
    /\ \E d \in DayChoices :
           /\ d < params.max_days_before_script
           /\ PairsWithDays(d) # <<>>
           /\ Len(PairsWithDays(d)) < Len(output_file.rows)

(* ------------------------------ C6 ------------------------------------ *)

\* C6: the second call on the same file with the same arguments ends with
\* the output file the first call left: the same pairs, in the same order,
\* with the same values (checked under SpecRepeat).
C6_SecondRunSameOutput ==
    (run = 2 /\ Finished) => output_file = first_output

\* A second call that completed and wrote two pairs or more.
C6_Witness ==
    /\ run = 2
    /\ pc = "done"
    /\ Len(output_file.rows) >= 2

(* ------------------------------ C7 ------------------------------------ *)

Loaded == pc \in {"filter", "select", "branch", "loop", "done"}

NoEarthquakeLoaded ==
    /\ Loaded
    /\ \A i \in DOMAIN df : ~is_earthquake(df[i])

HeaderOnly == [written |-> TRUE, columns |-> output_columns, rows |-> <<>>]

\* C7: with a loaded store that holds no event of type 'earthquake', the run
\* never enters the scan (no mainshock is taken, no candidate is looked at),
\* never raises or returns early, can always take its next step until it is
\* done, and when done has written the header and no row.
C7_NoEarthquakeHeaderOnly ==
    NoEarthquakeLoaded =>
        /\ pc # "loop"
        /\ mi = 0 /\ ci = 0
        /\ temporal_candidates = <<>>
        /\ all_event_pairs_data = <<>>
        /\ pc = "done" => output_file = HeaderOnly
        /\ pc # "done" => ENABLED Next /\ output_file = NoFile

\* A completed run on a store that is not empty and holds no earthquake.
C7_Witness ==
    /\ NoEarthquakeLoaded
    /\ pc = "done"
    /\ df # <<>>
    /\ output_file = HeaderOnly

(* ------------------------------ C8 ------------------------------------ *)

ScenarioEvent(e) == <<e.ID, e.mag, e.time, e.latitude, e.longitude>>

ScenarioParams ==
    /\ params.min_mag_mainshock_script = 30
    /\ params.max_days_before_script = 29
    /\ params.max_search_radius_km_script = 500

\* The store holds A, B and C, in any order, and nothing else.
ScenarioABC ==
    /\ Loaded
    /\ Len(df) = 3
    /\ {ScenarioEvent(e) : e \in Range(df)}
           = {ScenarioEvent(EventA), ScenarioEvent(EventB),
              ScenarioEvent(EventC)}
    /\ \A e \in Range(df) : is_earthquake(e)
    /\ ScenarioParams

\* C8: in the scenario A, B, C with thresholds 3.0, 29 days, 500 km and no
\* country filter, a completed run wrote exactly one pair, mainshock 1 and
\* candidate 2; C is within 500 km of A and is no candidate of A, its time
\* being earlier than the start of A's window.
C8_ConcreteScenario ==
    (ScenarioABC /\ params.country_to_filter = None) =>
        /\ pc = "done" =>
               /\ Len(output_file.rows) = 1
               /\ output_file.rows[1].MS_ID = 1
               /\ output_file.rows[1].CS_ID = 2
        /\ (InScan /\ CurrentMainshock.ID = 1) =>
               /\ \A e \in Range(temporal_candidates) : e.ID = 2
               /\ EventC.time < WindowStart
               /\ within_radius(haversine(EventA.latitude, EventA.longitude,
                                          EventC.latitude, EventC.longitude),
                                params.max_search_radius_km_script)

\* The scenario, run to completion, with its one pair written.
C8_Witness ==
    /\ ScenarioABC
    /\ params.country_to_filter = None
    /\ pc = "done"
    /\ Len(output_file.rows) = 1

(* ------------------------------ C9 ------------------------------------ *)

\* case-insensitive, whitespace-trimmed match of a country with the filter
MatchesFilter(country) ==
    lower(strip(country)) = lower(strip(params.country_to_filter))

\* The scenario with B in Greece and the filter 'Italy'.
ScenarioGreece ==
    /\ ScenarioABC
    /\ params.country_to_filter = "Italy"
    /\ \A e \in Range(df) :
           e.country = (IF e.ID = 2 THEN "Greece" ELSE "Italy")

\* C9: with a country filter set, from the filtering on (before the
\* mainshocks are selected and before any candidate is looked at) the
\* working set holds no event of another country, and so neither do the
\* mainshocks, the candidates and the two sides of every pair; in the
\* scenario with B in Greece and the filter 'Italy' a completed run wrote no
\* pair.
C9_CountryFilter ==
    params.country_to_filter # None =>
        /\ pc \in {"select", "branch", "loop", "done"} =>
               \A e \in Range(df_earthquakes) : MatchesFilter(e.country)
        /\ \A e \in Range(potential_mainshocks) : MatchesFilter(e.country)
        /\ \A e \in Range(temporal_candidates) : MatchesFilter(e.country)
        /\ \A p \in PairsSoFar :
               MatchesFilter(p.MS_Country) /\ MatchesFilter(p.CS_Country)
        /\ (ScenarioGreece /\ pc = "done") => output_file = HeaderOnly

\* The scenario with B in Greece, run to completion under the filter, and
\* the same store holding a pair's worth of events: B is loaded, inside A's
\* window and radius, and not in the working set.
C9_Witness ==
    /\ ScenarioGreece
    /\ pc = "done"
    /\ output_file = HeaderOnly
    /\ \E b \in Range(df) :
           /\ b.ID = 2
           /\ b \notin Range(df_earthquakes)
           /\ EventA.time - 29 * SecondsPerDay <= b.time
           /\ b.time < EventA.time

(* ------------------------------ C10 ----------------------------------- *)

\* C10 as stated: in every pair the candidate is strictly earlier than the
\* mainshock and its magnitude is smaller than the mainshock's.
C10_EarlierAndSmallerAsStated ==
    \A p \in PairsSoFar : p.CS_Time < p.MS_Time /\ p.CS_Mag < p.MS_Mag

\* C10 (amended): in every pair the candidate is strictly earlier than the
\* mainshock; the magnitudes of the two are not compared.
C10_CandidateStrictlyEarlier ==
    \A p \in PairsSoFar : p.CS_Time < p.MS_Time

\* A written pair whose candidate is at least as large as its mainshock.
C10_Witness ==
    /\ pc = "done"
    /\ \E p \in Range(output_file.rows) :
           p.CS_Time < p.MS_Time /\ p.CS_Mag >= p.MS_Mag

(* ------------------------------ C11 ----------------------------------- *)

\* C11: in every pair, accumulated or written, Days_Before_Exact (mainshock
\* time minus candidate time in days, rounded to 4 decimals) is strictly
\* positive.
C11_DaysBeforePositive ==
    \A p \in PairsSoFar : p.Days_Before_Exact > 0

\* The part of C11 that the rounding leaves: the value is never negative,
\* and it is positive from a gap of five seconds on.
C11_DaysBeforeNotNegative ==
    \A p \in PairsSoFar :
        /\ p.Days_Before_Exact >= 0
        /\ p.MS_Time - p.CS_Time >= 5 => p.Days_Before_Exact > 0

(* ------------------------------ C12 ----------------------------------- *)

OutOfDomain ==
    \/ params.max_search_radius_km_script < 0
    \/ params.max_days_before_script < 0

\* C12: with a negative max_radius_km or a negative max_days_before the run
\* fails before it computes: no event is filtered into a working set, no
\* pair is made, no output is written, and the run does not complete.
C12_OutOfDomainRejected ==
    OutOfDomain =>
        /\ pc # "done"
        /\ df_earthquakes = <<>>
        /\ all_event_pairs_data = <<>>
        /\ output_file = NoFile

(* ------------------------------ C13 ----------------------------------- *)

\* The file is read and has the required columns, and none of its rows has
\* every required cell.
ZeroParseableRows ==
    /\ csv.exists
    /\ required_cols_for_analysis \subseteq csv.columns
    /\ \A i \in DOMAIN csv.rows : ~required_present(csv.rows[i])

\* C13: with zero parseable rows after the validation of the required
\* fields the run is a failed load: it never completes and never writes an
\* output, not even the header.
C13_ZeroRowsNoOutput ==
    ZeroParseableRows => (pc # "done" /\ output_file = NoFile)

(* ------------------------------ C14 ----------------------------------- *)

RequiredFields ==
    {"time", "latitude", "longitude", "mag", "type", "country", "ID"}

LacksRequired(row) ==
    \E col \in RequiredFields : row[col] = empty_cell(col)

LacksOptional(row) ==
    row.depth = NaN /\ row.fault = NaNStr /\ row.location = NaNStr

\* The rows of the file that lack no required field, in the file's order.
RowsWithRequired ==
    LET Keep(row) == ~LacksRequired(row)
    IN  SelectSeq(csv.rows, Keep)

\* The file was read and has the required columns: the cleaning is over.
Cleaned ==
    /\ csv.exists
    /\ required_cols_for_analysis \subseteq csv.columns
    /\ pc \notin {"read", "clean"}

\* C14 (checked under SpecLoad): after the cleaning the frame holds exactly
\* the rows of the file that lack none of time, latitude, longitude, mag,
\* type, country, ID, those that lack only optional cells included; both
\* sides of every pair are rows that were kept; and the run goes on to its
\* end without returning early or raising (on a file that has the depth
\* column the scan reads).
C14_DropIffRequiredMissing ==
    Cleaned =>
        /\ df = RowsWithRequired
        /\ \A p \in PairsSoFar :
               \E m, c \in Range(RowsWithRequired) :
                   PairKey(p) = <<EventKey(m), EventKey(c)>>
        /\ "depth" \in csv.columns =>
               /\ pc \notin {"returned", "raised"}
               /\ pc # "done" => ENABLED Next

\* A completed run that dropped a row, kept a row without any optional cell
\* and wrote a pair with it.
C14_Witness ==
    /\ Cleaned
    /\ pc = "done"
    /\ Len(df) < Len(csv.rows)
    /\ \E e \in Range(df) :
           /\ LacksOptional(e)
           /\ \E p \in Range(output_file.rows) : p.CS_ID = e.ID

(* ------------------------------ C15 ----------------------------------- *)

\* The file names its identifier column 'id' and has no 'ID' column.
IdOnly == csv.exists /\ "id" \in csv.columns /\ "ID" \notin csv.columns

NoDepthColumn ==
    /\ csv.exists
    /\ required_cols_for_analysis \subseteq csv.columns
    /\ "depth" \notin csv.columns

\* C16: a file without a depth column is processed to completion without
\* raising, and its pairs carry an absent depth on both sides.
C16_DepthColumnOptional ==
    NoDepthColumn =>
        /\ pc # "raised"
        /\ Finished => (pc = "done" /\ output_file.written)
        /\ \A p \in PairsSoFar : p.MS_Depth = NaN /\ p.CS_Depth = NaN

\* The part of C16 the code keeps: on a file that has the depth column, an
\* event without a depth value is kept and paired, with an absent depth in
\* the pair.
C16_DepthValueOptional ==
    {"time", "depth"} \subseteq csv.columns =>
        /\ pc # "raised"
        /\ \A p \in PairsSoFar :
               \E m, c \in Range(df_earthquakes) :
                   /\ PairKey(p) = <<EventKey(m), EventKey(c)>>
                   /\ p.MS_Depth = m.depth
                   /\ p.CS_Depth = c.depth

(* ------------------------------ C17 ----------------------------------- *)

\* The pairing phase: from the selection of the mainshocks to the write.
Pairing == pc \in {"select", "branch", "loop"}

\* C17: no step of the pairing phase (mainshock selection, candidate
\* filter, distance evaluation, pair accumulation, write) changes the
\* cleaned frame, the working set or any attribute of any of their events;
\* once selected, the mainshocks do not change either.
C17_StoreImmutable ==
    [][Pairing =>
          /\ df' = df
          /\ df_earthquakes' = df_earthquakes
          /\ pc # "select" => potential_mainshocks' = potential_mainshocks]_vars

\* A completed run over a full working set that filtered candidates for two
\* mainshocks and accumulated two pairs, the working set still the one the
\* load built.
C17_Witness ==
    /\ pc = "done"
    /\ Len(df_earthquakes) = MaxEvents
    /\ df_earthquakes = working_set(df, params.country_to_filter)
    /\ Len(potential_mainshocks) >= 2
    /\ Len(output_file.rows) >= 2

(* ------------------------------ C18 ----------------------------------- *)

\* The load succeeded: the file was read and has every required column.
LoadSucceeds ==
    csv.exists /\ required_cols_for_analysis \subseteq csv.columns

\* C18: every run whose load succeeds ends with an output written, and the
\* output has the 20 columns in their order.
C18_AlwaysWritesTwentyColumns ==
    (LoadSucceeds /\ Finished) =>
        /\ output_file.written
        /\ output_file.columns = output_columns
        /\ Len(output_columns) = 20

\* The part of C18 the code keeps: an output that is written, by the
\* empty-mainshock path or by the normal path, has the 20 columns in their
\* order, and each of its rows has exactly these fields.
C18_ColumnsWhenWritten ==
    output_file.written =>
        /\ output_file.columns = output_columns
        /\ Len(output_columns) = 20
        /\ \A p \in Range(output_file.rows) : DOMAIN p = Range(output_columns)

(* ------------------------------ C19 ----------------------------------- *)

\* (mainshock row, candidate row) before another: the order of the mainshock
\* rows in the store, then the order of the candidate rows in the store.
StoreOrderBefore(xy, ij) ==
    \/ xy[1] < ij[1]
    \/ xy[1] = ij[1] /\ xy[2] < ij[2]

\* The place of a qualifying pair in that order.
StoreOrderRank(ij) ==
    1 + Cardinality({xy \in QualifyingPairs : StoreOrderBefore(xy, ij)})

\* C19: the rows written are the qualifying pairs in store order: the
\* pairs of one mainshock row are contiguous, the blocks follow the store
\* order of the mainshock rows, whatever their times and magnitudes, and in
\* a block the candidates follow the store order.
C19_StoreOrder ==
    pc = "done" =>
        /\ Len(output_file.rows) = Cardinality(QualifyingPairs)
        /\ \A ij \in QualifyingPairs :
               PairKey(output_file.rows[StoreOrderRank(ij)]) = KeyOfIndices(ij)

\* A completed run whose output has the block of a mainshock before the
\* block of a mainshock that is both larger and earlier.
C19_Witness ==
    /\ pc = "done"
    /\ \E k, l \in DOMAIN output_file.rows :
           /\ k < l
           /\ output_file.rows[k].MS_Mag < output_file.rows[l].MS_Mag
           /\ output_file.rows[k].MS_Time > output_file.rows[l].MS_Time

(* ------------------------------ C20 ----------------------------------- *)

\* What an event holds for an optional attribute: the cell of its row,
\* empty (NaNStr) when the event has none, or nothing at all (None) when the
\* file has no such column.
OptionalAttribute(e, col) ==
    IF col \in csv.columns THEN e[col] ELSE None

\* In both of these the attribute is absent.
Absent == {NaNStr, None}

IsMainshockSideOf(p, m) ==
    /\ p.MS_ID = m.ID
    /\ p.MS_Time = m.time
    /\ p.MS_Lat = m.latitude
    /\ p.MS_Lon = m.longitude
    /\ p.MS_Mag = m.mag
    /\ p.MS_Depth = m.depth
    /\ p.MS_Country = m.country
    /\ p.MS_Fault = OptionalAttribute(m, "fault")
    /\ p.MS_location = OptionalAttribute(m, "location")

IsCandidateSideOf(p, c) ==
    /\ p.CS_ID = c.ID
    /\ p.CS_Time = c.time
    /\ p.CS_Lat = c.latitude
    /\ p.CS_Lon = c.longitude
    /\ p.CS_Mag = c.mag
    /\ p.CS_Depth = c.depth
    /\ p.CS_Country = c.country
    /\ p.CS_Fault = OptionalAttribute(c, "fault")
    /\ p.CS_location = OptionalAttribute(c, "location")

\* C20: every pair holds, attribute by attribute, what two events of the
\* working set hold, the country as it is spelled in the file; a fault or a
\* location that the event lacks, or whose column the file lacks, is absent
\* in the pair, and no optional attribute of a pair is the empty string.
C20_VerbatimCopies ==
    \A p \in PairsSoFar :
        /\ \E m, c \in Range(df_earthquakes) :
               /\ IsMainshockSideOf(p, m)
               /\ IsCandidateSideOf(p, c)
               /\ \A col \in {"fault", "location"} :
                      /\ m[col] = NaNStr => OptionalAttribute(m, col) \in Absent
                      /\ c[col] = NaNStr => OptionalAttribute(c, col) \in Absent
        /\ "" \notin {p.MS_Fault, p.MS_location, p.CS_Fault, p.CS_location}
        /\ {"fault", "location"} \cap csv.columns = {} =>
               {p.MS_Fault, p.MS_location, p.CS_Fault, p.CS_location} = {None}

\* A completed run on a file without fault and location columns that wrote
\* a pair, whose candidate's country is spelled other than the filter.
C20_Witness ==
    /\ pc = "done"
    /\ "fault" \notin csv.columns
    /\ "location" \notin csv.columns
    /\ \E p \in Range(output_file.rows) :
           /\ p.MS_Fault = None
           /\ p.CS_location = None
           /\ p.CS_Country = " italy "

-----------------------------------------------------------------------------
(* haversine called on two points, then on the same points swapped.        *)

\* the programs other than the calls of haversine
not_haversine_call == <<swarm_vars, evaluation, fetch, reconciled, warehouse>>

SwarmIdle ==
    /\ csv = MissingFile
    /\ params = ScriptParams
    /\ pc = "idle"
    /\ df = <<>>
    /\ df_earthquakes = <<>>
    /\ potential_mainshocks = <<>>
    /\ mi = 0
    /\ temporal_candidates = <<>>
    /\ ci = 0
    /\ all_event_pairs_data = <<>>
    /\ output_file = NoFile
    /\ run = 1
    /\ first_output = NoFile

InitDistance ==
    /\ \E a \in Points, b \in Points :
           haversine_call =
               [pc |-> "call", lat1 |-> a[1], lon1 |-> a[2],
                lat2 |-> b[1], lon2 |-> b[2],
                distance |-> NaN, swapped |-> NaN]
    /\ SwarmIdle
    /\ evaluation = Idle
    /\ fetch = Idle
    /\ reconciled = Idle
    /\ warehouse = Idle

\* haversine(lat1, lon1, lat2, lon2): returns the distance, or raises at
\* sqrt(1 - a)
CallHaversine ==
    /\ haversine_call.pc = "call"
    /\ LET h == haversine_call
       IN  IF <<h.lat1, h.lon1, h.lat2, h.lon2>> \in MathDomainError
           THEN haversine_call' = [h EXCEPT !.pc = "raised"]
           ELSE haversine_call' =
                    [h EXCEPT !.pc = "swap",
                              !.distance =
                                  haversine(h.lat1, h.lon1, h.lat2, h.lon2)]
    /\ UNCHANGED not_haversine_call

\* haversine(lat2, lon2, lat1, lon1)
CallHaversineSwapped ==
    /\ haversine_call.pc = "swap"
    /\ LET h == haversine_call
       IN  IF <<h.lat2, h.lon2, h.lat1, h.lon1>> \in MathDomainError
           THEN haversine_call' = [h EXCEPT !.pc = "raised"]
           ELSE haversine_call' =
                    [h EXCEPT !.pc = "done",
                              !.swapped =
                                  haversine(h.lat2, h.lon2, h.lat1, h.lon1)]
    /\ UNCHANGED not_haversine_call

NextDistance ==
    \/ CallHaversine
    \/ CallHaversineSwapped

SpecDistance == InitDistance /\ [][NextDistance]_vars

(* ------------------------------ C21 ----------------------------------- *)

\* C21 (checked under SpecDistance): for all valid points a and b the two
\* calls haversine(a, b) and haversine(b, a) give a distance each, and the
\* two distances are equal.
C21_Symmetric ==
    /\ haversine_call.pc # "raised"
    /\ haversine_call.pc = "done" =>
           haversine_call.swapped = haversine_call.distance

\* The part of C21 the code keeps: when haversine(a, b) returns,
\* haversine(b, a) returns the same distance.
C21_SymmetricWhereDefined ==
    /\ haversine_call.pc = "swap" =>
           <<haversine_call.lat2, haversine_call.lon2,
             haversine_call.lat1, haversine_call.lon1>> \notin MathDomainError
    /\ haversine_call.pc = "done" =>
           haversine_call.swapped = haversine_call.distance

(* ------------------------------ C22 ----------------------------------- *)

\* the farthest two points of the sphere can be: half the circumference
\* (pi * 6371 km), in KmScale-ths of a km
HalfCircumference == 200150868

\* C22 (checked under SpecDistance): haversine is defined and finite on
\* every pair of valid points, antipodal ones included, its value is >= 0,
\* and it is 0 on a point and itself.
C22_DefinedZeroAndNonNegative ==
    /\ haversine_call.pc # "raised"
    /\ haversine_call.pc \in {"swap", "done"} =>
           /\ haversine_call.distance >= 0
           /\ haversine_call.distance <= HalfCircumference
           /\ (haversine_call.lat1 = haversine_call.lat2
                   /\ haversine_call.lon1 = haversine_call.lon2)
                  => haversine_call.distance = 0

\* The part of C22 the code keeps: when haversine returns, the distance is
\* >= 0, at most half the circumference, and 0 on a point and itself.
C22_ZeroAndNonNegativeWhereDefined ==
    haversine_call.pc \in {"swap", "done"} =>
        /\ haversine_call.distance >= 0
        /\ haversine_call.distance <= HalfCircumference
        /\ (haversine_call.lat1 = haversine_call.lat2
                /\ haversine_call.lon1 = haversine_call.lon2)
               => haversine_call.distance = 0

-----------------------------------------------------------------------------
(* DB_reconciled_db.py: populate_database_from_csv on the tables that      *)
(* create_database has just created.  A table is the sequence of its rows, *)
(* the ID of a row its place in the sequence (INTEGER PRIMARY KEY: the     *)
(* largest rowid plus one, and no row is ever deleted).                    *)

MaxRows == 3

\* the programs other than the loader of the reconciled database
not_reconciled == <<swarm_vars, haversine_call, evaluation, fetch, warehouse>>

\* A row as csv.DictReader gives it: every cell a string, the empty string
\* for an empty cell, None (restval) for a cell a short line does not reach.
\* ID stands for its text, the text of a whole number.
CsvRow(ID, location, fault, magType, type, depth) ==
    [ID |-> ID, location |-> location, fault |-> fault, magType |-> magType,
     type |-> type, depth |-> depth]

RowRome == CsvRow(1, "Rome", "F1", "ml", "earthquake", "10.0")
RowRomeMd == CsvRow(2, "Rome", "F1", "md", "earthquake", "10.0")
RowNoFault == CsvRow(3, "Norcia", "", "ml", "earthquake", "8.5")
RowBlast == CsvRow(4, "Norcia", "", "ml", "quarry blast", "0.0")
\* a line that ends after its location: no fault cell
RowShort == CsvRow(5, "Rome", None, "ml", "earthquake", "10.0")
RowShortAgain == CsvRow(6, "Norcia", None, "ml", "earthquake", "10.0")
\* an empty depth cell
RowNoDepth == CsvRow(7, "Rome", "F1", "ml", "earthquake", "")

FullRows == {RowRome, RowRomeMd, RowNoFault, RowBlast, RowNoDepth}

CsvRows == FullRows \cup {RowShort, RowShortAgain}

\* float(text): ValueError on the empty string
float_raises(text) == text = ""

\* column = ? in a WHERE clause: NULL equals nothing, not even NULL
sql_equals(cell, value) == cell # None /\ value # None /\ cell = value

\* SELECT ID FROM table WHERE column = ?, then fetchone(): the IDs of the
\* matching rows, of which fetchone gives the first
select_ids(table, value) ==
    {id \in DOMAIN table : sql_equals(table[id], value)}

Min(S) == CHOOSE x \in S : \A y \in S : x <= y

\* insert_or_get_id: the table after the call and the ID returned
insert_or_get_id(table, value) ==
    IF select_ids(table, value) # {}
    THEN [table |-> table, id |-> Min(select_ids(table, value))]
    ELSE [table |-> Append(table, value), id |-> Len(table) + 1]

select_type_ids(table, mag_type, event_type) ==
    {id \in DOMAIN table :
        /\ sql_equals(table[id].magType, mag_type)
        /\ sql_equals(table[id].type, event_type)}

\* insert_type_or_get_id
insert_type_or_get_id(table, mag_type, event_type) ==
    IF select_type_ids(table, mag_type, event_type) # {}
    THEN [table |-> table,
          id |-> Min(select_type_ids(table, mag_type, event_type))]
    ELSE [table |-> Append(table, [magType |-> mag_type, type |-> event_type]),
          id |-> Len(table) + 1]

\* the tables as create_database leaves them
EmptyTables ==
    [Location |-> <<>>, Fault |-> <<>>, Type |-> <<>>, Status |-> <<>>,
     Contributors |-> 0, Error |-> 0, Earthquake |-> <<>>]

InitReconciled ==
    /\ \E rows \in SeqsUpTo(CsvRows, MaxRows) :
           reconciled =
               [pc |-> "location", rows |-> rows, i |-> 0,
                tables |-> EmptyTables,
                location_id |-> 0, fault_id |-> 0, type_id |-> 0,
                status_id |-> 0,
                calls |-> {}]
    /\ SwarmIdle
    /\ haversine_call = Idle
    /\ evaluation = Idle
    /\ fetch = Idle
    /\ warehouse = Idle

\* the row the loop is on
reconciled_row == reconciled.rows[reconciled.i + 1]

\* location_id = insert_or_get_id(cursor, 'Location', 'location', ...)
InsertLocation ==
    /\ reconciled.pc = "location"
    /\ reconciled.i < Len(reconciled.rows)
    /\ LET r == insert_or_get_id(reconciled.tables.Location,
                                 reconciled_row.location)
       IN  reconciled' =
               [reconciled EXCEPT
                    !.pc = "fault",
                    !.tables.Location = r.table,
                    !.location_id = r.id,
                    !.calls = @ \cup {<<"Location", reconciled_row.location,
                                        r.id>>}]
    /\ UNCHANGED not_reconciled

\* fault_id = insert_or_get_id(cursor, 'Fault', 'fault', row['fault'])
InsertFault ==
    /\ reconciled.pc = "fault"
    /\ LET r == insert_or_get_id(reconciled.tables.Fault, reconciled_row.fault)
       IN  reconciled' =
               [reconciled EXCEPT
                    !.pc = "type",
                    !.tables.Fault = r.table,
                    !.fault_id = r.id,
                    !.calls = @ \cup {<<"Fault", reconciled_row.fault, r.id>>}]
    /\ UNCHANGED not_reconciled

\* type_id = insert_type_or_get_id(cursor, row['magType'], row['type'])
InsertType ==
    /\ reconciled.pc = "type"
    /\ LET r == insert_type_or_get_id(reconciled.tables.Type,
                                      reconciled_row.magType,
                                      reconciled_row.type)
       IN  reconciled' =
               [reconciled EXCEPT
                    !.pc = "defaults",
                    !.tables.Type = r.table,
                    !.type_id = r.id,
                    !.calls = @ \cup
                        {<<"Type",
                           <<reconciled_row.magType, reconciled_row.type>>,
                           r.id>>}]
    /\ UNCHANGED not_reconciled

\* the Status row 'reviewed', and a new Contributors row and a new Error row
InsertDefaults ==
    /\ reconciled.pc = "defaults"
    /\ LET r == insert_or_get_id(reconciled.tables.Status, "reviewed")
       IN  reconciled' =
               [reconciled EXCEPT
                    !.pc = "earthquake",
                    !.tables.Status = r.table,
                    !.status_id = r.id,
                    !.tables.Contributors = @ + 1,
                    !.tables.Error = @ + 1,
                    !.calls = @ \cup {<<"Status", "reviewed", r.id>>}]
    /\ UNCHANGED not_reconciled

\* float(row['depth']) raises ValueError, or the INSERT of an ID the table
\* already has raises IntegrityError
earthquake_insert_raises ==
    \/ float_raises(reconciled_row.depth)
    \/ \E k \in DOMAIN reconciled.tables.Earthquake :
           reconciled.tables.Earthquake[k].ID = reconciled_row.ID

\* INSERT INTO Earthquake
InsertEarthquake ==
    /\ reconciled.pc = "earthquake"
    /\ ~earthquake_insert_raises
    /\ reconciled' =
           [reconciled EXCEPT
                !.pc = "location",
                !.i = @ + 1,
                !.tables.Earthquake =
                    Append(@, [ID |-> reconciled_row.ID,
                               locationID |-> reconciled.location_id,
                               faultID |-> reconciled.fault_id,
                               typeID |-> reconciled.type_id,
                               statusID |-> reconciled.status_id,
                               contributorsID |-> reconciled.tables.Contributors,
                               errorID |-> reconciled.tables.Error])]
    /\ UNCHANGED not_reconciled

\* The exception leaves populate_database_from_csv before its commit; main
\* closes the connection, and the database keeps what was committed: the
\* empty tables.
InsertEarthquakeRaises ==
    /\ reconciled.pc = "earthquake"
    /\ earthquake_insert_raises
    /\ reconciled' = [reconciled EXCEPT !.pc = "raised", !.tables = EmptyTables]
    /\ UNCHANGED not_reconciled

\* conn.commit() after the last row
CommitReconciled ==
    /\ reconciled.pc = "location"
    /\ reconciled.i = Len(reconciled.rows)
    /\ reconciled' = [reconciled EXCEPT !.pc = "done"]
    /\ UNCHANGED not_reconciled

NextReconciled ==
    \/ InsertLocation
    \/ InsertFault
    \/ InsertType
    \/ InsertDefaults
    \/ InsertEarthquake
    \/ InsertEarthquakeRaises
    \/ CommitReconciled

SpecReconciled == InitReconciled /\ [][NextReconciled]_vars

(* ------------------------------ C23 ----------------------------------- *)

\* No two rows of a lookup table hold the same value.
NoDuplicate(table) ==
    \A j, k \in DOMAIN table : table[j] = table[k] => j = k

\* insert_or_get_id and insert_type_or_get_id returned one ID per value.
SameIdForSameValue ==
    \A c, d \in reconciled.calls :
        (c[1] = d[1] /\ c[2] = d[2]) => c[3] = d[3]

\* The Earthquake row of the k-th line references the lookup rows that hold
\* the line's location, fault and (magType, type).
ReferencesOwnValues ==
    \A k \in DOMAIN reconciled.tables.Earthquake :
        LET e == reconciled.tables.Earthquake[k]
            line == reconciled.rows[k]
        IN  /\ e.locationID \in DOMAIN reconciled.tables.Location
            /\ reconciled.tables.Location[e.locationID] = line.location
            /\ e.faultID \in DOMAIN reconciled.tables.Fault
            /\ reconciled.tables.Fault[e.faultID] = line.fault
            /\ e.typeID \in DOMAIN reconciled.tables.Type
            /\ reconciled.tables.Type[e.typeID] =
                   [magType |-> line.magType, type |-> line.type]

LookupsConsistent ==
    /\ NoDuplicate(reconciled.tables.Location)
    /\ NoDuplicate(reconciled.tables.Fault)
    /\ NoDuplicate(reconciled.tables.Type)
    /\ SameIdForSameValue
    /\ ReferencesOwnValues

\* C23 (checked under SpecReconciled): whatever the lines of the CSV, once
\* populate_database_from_csv has processed them the Location, Fault and
\* Type tables hold no value twice, the lookups have returned one ID per
\* value, and every Earthquake row references the lookup rows that hold its
\* line's values.
C23_LookupsDeduplicated == reconciled.pc = "done" => LookupsConsistent

\* every line of the file has all its cells
AllLinesFull ==
    \A k \in DOMAIN reconciled.rows : reconciled.rows[k] \in FullRows

\* The part of C23 the code keeps: on files every line of which has all its
\* cells it holds after every step of the load.
C23_LookupsDeduplicatedOnFullLines == AllLinesFull => LookupsConsistent

-----------------------------------------------------------------------------
(* DB_data_warehouse.py: populate_dimension_tables, then                   *)
(* populate_fact_table, on the tables create_star_schema_database has just *)
(* created.  A table is the sequence of its rows, the surrogate key of a   *)
(* row its place in the sequence (AUTOINCREMENT, no row is ever deleted).  *)

\* the programs other than the loader of the star schema
not_warehouse == <<swarm_vars, haversine_call, evaluation, fetch, reconciled>>

\* A row as csv.DictReader gives it (see CsvRow).
StarRow(ID, time, latitude, longitude, location, fault, magType, type, depth) ==
    [ID |-> ID, time |-> time, latitude |-> latitude, longitude |-> longitude,
     location |-> location, fault |-> fault, magType |-> magType,
     type |-> type, depth |-> depth]

TimeNorcia == "2016-10-30T06:40:18.000Z"
TimeAquila == "2009-04-06T01:32:39.000Z"

StarNorcia ==
    StarRow(1, TimeNorcia, "42.0", "13.0", "Norcia", "F1", "ml", "earthquake",
            "10.0")
\* another event of the same time, place, fault and type
StarNorciaAgain ==
    StarRow(2, TimeNorcia, "42.0", "13.0", "Norcia", "F1", "ml", "earthquake",
            "8.5")
\* the same coordinates written with another text, an empty fault cell
StarAquila ==
    StarRow(3, TimeAquila, "42.00", "13.0", "Norcia", "", "md", "earthquake",
            "8.5")
\* a line that ends before its fault cell
StarShort ==
    StarRow(4, TimeAquila, "42.0", "13.0", "Norcia", None, "ml", "earthquake",
            "10.0")
\* an empty depth cell
StarNoDepth ==
    StarRow(5, TimeNorcia, "42.0", "13.0", "Norcia", "F1", "ml", "earthquake",
            "")
\* an empty latitude cell
StarNoLatitude ==
    StarRow(6, TimeNorcia, "", "13.0", "Norcia", "F1", "ml", "earthquake",
            "10.0")

StarRows ==
    {StarNorcia, StarNorciaAgain, StarAquila, StarShort, StarNoDepth,
     StarNoLatitude}

\* float(text) on the texts of the rows, in hundredths
float(text) ==
    CASE text = "42.0" -> 4200
      [] text = "42.00" -> 4200
      [] text = "13.0" -> 1300
      [] text = "10.0" -> 1000
      [] text = "8.5" -> 850

\* parse_datetime: the components of an ISO time, the defaults when the text
\* does not parse
parse_datetime(time_str) ==
    CASE time_str = TimeNorcia ->
             [hour |-> 6, day |-> 30, month |-> 10, quarter |-> 4,
              year |-> 2016, day_of_week |-> "Sunday",
              month_name |-> "October"]
      [] time_str = TimeAquila ->
             [hour |-> 1, day |-> 6, month |-> 4, quarter |-> 2,
              year |-> 2009, day_of_week |-> "Monday",
              month_name |-> "April"]
      [] OTHER ->
             [hour |-> 0, day |-> 1, month |-> 1, quarter |-> 1,
              year |-> 1970, day_of_week |-> "Unknown",
              month_name |-> "Unknown"]

\* the key of location_mapping
location_key(latitude, longitude, location) ==
    <<latitude, longitude, location>>

\* the tables as create_star_schema_database leaves them
EmptyStar ==
    [Dim_Fault |-> <<>>, Dim_Type |-> <<>>, Dim_Location |-> <<>>,
     Dim_Time |-> <<>>, Fact_Earthquake |-> <<>>]

InitWarehouse ==
    /\ \E rows \in SeqsUpTo(StarRows, MaxRows) :
           warehouse =
               [pc |-> "collect", rows |-> rows,
                faults |-> {}, types |-> {}, locations |-> {}, times |-> {},
                fault_mapping |-> <<>>, type_mapping |-> <<>>,
                location_mapping |-> <<>>, time_mapping |-> <<>>,
                tables |-> EmptyStar, k |-> 0]
    /\ SwarmIdle
    /\ haversine_call = Idle
    /\ evaluation = Idle
    /\ fetch = Idle
    /\ reconciled = Idle

\* Faulty variant: the first pass leaves out the fault of a line that has
\* no fault cell.
CollectDimensionValuesOfFullLines ==
    /\ warehouse.pc = "collect"
    /\ LET rows == warehouse.rows
       IN  warehouse' =
               [warehouse EXCEPT
                    !.pc = "dimensions",
                    !.faults = {<<rows[n].fault, "Unknown">> :
                                    n \in {x \in DOMAIN rows :
                                               rows[x].fault # None}},
                    !.types = {<<rows[n].magType, rows[n].type>> :
                                   n \in DOMAIN rows},
                    !.locations = {<<rows[n].latitude, rows[n].longitude,
                                     rows[n].location, "Italy">> :
                                       n \in DOMAIN rows},
                    !.times = {rows[n].time : n \in DOMAIN rows}]
    /\ UNCHANGED not_warehouse

\* first pass over the file: the sets of dimension values
CollectDimensionValues ==
    /\ warehouse.pc = "collect"
    /\ LET rows == warehouse.rows
       IN  warehouse' =
               [warehouse EXCEPT
                    !.pc = "dimensions",
                    !.faults = {<<rows[n].fault, "Unknown">> :
                                    n \in DOMAIN rows},
                    !.types = {<<rows[n].magType, rows[n].type>> :
                                   n \in DOMAIN rows},
                    !.locations = {<<rows[n].latitude, rows[n].longitude,
                                     rows[n].location, "Italy">> :
                                       n \in DOMAIN rows},
                    !.times = {rows[n].time : n \in DOMAIN rows}]
    /\ UNCHANGED not_warehouse

\* one turn of "for fault, macro_fault in faults": the set is iterated in an
\* order the program does not choose
InsertDimFault ==
    /\ warehouse.pc = "dimensions"
    /\ \E f \in warehouse.faults :
           warehouse' =
               [warehouse EXCEPT
                    !.faults = @ \ {f},
                    !.tables.Dim_Fault =
                        Append(@, [fault |-> f[1], macro_fault |-> f[2]]),
                    !.fault_mapping =
                        (f[1] :> Len(warehouse.tables.Dim_Fault) + 1) @@ @]
    /\ UNCHANGED not_warehouse

\* one turn of "for mag_type, event_type in types"
InsertDimType ==
    /\ warehouse.pc = "dimensions"
    /\ warehouse.faults = {}
    /\ \E t \in warehouse.types :
           warehouse' =
               [warehouse EXCEPT
                    !.types = @ \ {t},
                    !.tables.Dim_Type =
                        Append(@, [magType |-> t[1], type |-> t[2]]),
                    !.type_mapping =
                        (t :> Len(warehouse.tables.Dim_Type) + 1) @@ @]
    /\ UNCHANGED not_warehouse

\* one turn of "for lat, lon, location, country in locations"
InsertDimLocation ==
    /\ warehouse.pc = "dimensions"
    /\ warehouse.faults = {}
    /\ warehouse.types = {}
    /\ \E l \in warehouse.locations :
           /\ ~float_raises(l[1])
           /\ ~float_raises(l[2])
           /\ warehouse' =
                  [warehouse EXCEPT
                       !.locations = @ \ {l},
                       !.tables.Dim_Location =
                           Append(@, [latitude |-> float(l[1]),
                                      longitude |-> float(l[2]),
                                      location |-> l[3], country |-> l[4]]),
                       !.location_mapping =
                           (location_key(l[1], l[2], l[3]) :>
                                Len(warehouse.tables.Dim_Location) + 1) @@ @]
    /\ UNCHANGED not_warehouse

\* float(lat) or float(lon) raises ValueError: main closes the connection
\* before any commit
InsertDimLocationRaises ==
    /\ warehouse.pc = "dimensions"
    /\ warehouse.faults = {}
    /\ warehouse.types = {}
    /\ \E l \in warehouse.locations :
           float_raises(l[1]) \/ float_raises(l[2])
    /\ warehouse' = [warehouse EXCEPT !.pc = "raised", !.tables = EmptyStar]
    /\ UNCHANGED not_warehouse

\* one turn of "for time_str in times"
InsertDimTime ==
    /\ warehouse.pc = "dimensions"
    /\ warehouse.faults = {}
    /\ warehouse.types = {}
    /\ warehouse.locations = {}
    /\ \E t \in warehouse.times :
           warehouse' =
               [warehouse EXCEPT
                    !.times = @ \ {t},
                    !.tables.Dim_Time =
                        Append(@, [time |-> t,
                                   components |-> parse_datetime(t)]),
                    !.time_mapping =
                        (t :> Len(warehouse.tables.Dim_Time) + 1) @@ @]
    /\ UNCHANGED not_warehouse

\* conn.commit() and the return of the four mappings
CommitDimensions ==
    /\ warehouse.pc = "dimensions"
    /\ warehouse.faults = {}
    /\ warehouse.types = {}
    /\ warehouse.locations = {}
    /\ warehouse.times = {}
    /\ warehouse' = [warehouse EXCEPT !.pc = "facts"]
    /\ UNCHANGED not_warehouse

\* the row the second pass is on
star_row == warehouse.rows[warehouse.k + 1]

\* one turn of the loop of populate_fact_table: the four lookups, which
\* raise KeyError on a key the mapping does not have, then the INSERT,
\* where float(row['depth']) raises ValueError on an empty cell.  After an
\* exception main closes the connection: the fact rows are not committed.
InsertFact ==
    /\ warehouse.pc = "facts"
    /\ warehouse.k < Len(warehouse.rows)
    /\ LET row == star_row
           location == location_key(row.latitude, row.longitude, row.location)
       IN  IF \/ row.fault \notin DOMAIN warehouse.fault_mapping
              \/ <<row.magType, row.type>> \notin DOMAIN warehouse.type_mapping
              \/ location \notin DOMAIN warehouse.location_mapping
              \/ row.time \notin DOMAIN warehouse.time_mapping
           THEN warehouse' =
                    [warehouse EXCEPT !.pc = "KeyError",
                                      !.tables.Fact_Earthquake = <<>>]
           ELSE IF float_raises(row.depth)
           THEN warehouse' =
                    [warehouse EXCEPT !.pc = "raised",
                                      !.tables.Fact_Earthquake = <<>>]
           ELSE warehouse' =
                    [warehouse EXCEPT
                         !.k = @ + 1,
                         !.tables.Fact_Earthquake =
                             Append(@,
                                 [Time_SK |-> warehouse.time_mapping[row.time],
                                  Fault_SK |->
                                      warehouse.fault_mapping[row.fault],
                                  Location_SK |->
                                      warehouse.location_mapping[location],
                                  Type_SK |->
                                      warehouse.type_mapping[
                                          <<row.magType, row.type>>],
                                  depth |-> float(row.depth),
                                  original_earthquake_id |-> row.ID])]
    /\ UNCHANGED not_warehouse

\* conn.commit() after the last row
CommitFacts ==
    /\ warehouse.pc = "facts"
    /\ warehouse.k = Len(warehouse.rows)
    /\ warehouse' = [warehouse EXCEPT !.pc = "done"]
    /\ UNCHANGED not_warehouse

NextWarehouse ==
    \/ CollectDimensionValues
    \/ InsertDimFault
    \/ InsertDimType
    \/ InsertDimLocation
    \/ InsertDimLocationRaises
    \/ InsertDimTime
    \/ CommitDimensions
    \/ InsertFact
    \/ CommitFacts

SpecWarehouse == InitWarehouse /\ [][NextWarehouse]_vars

(* ------------------------------ C24 ----------------------------------- *)

\* every value of every line of the file has its row in its dimension
DimensionsComplete ==
    \A n \in DOMAIN warehouse.rows :
        LET line == warehouse.rows[n]
            dims == warehouse.tables
        IN  /\ \E sk \in DOMAIN dims.Dim_Fault :
                   dims.Dim_Fault[sk].fault = line.fault
            /\ \E sk \in DOMAIN dims.Dim_Type :
                   dims.Dim_Type[sk] =
                       [magType |-> line.magType, type |-> line.type]
            /\ \E sk \in DOMAIN dims.Dim_Location :
                   /\ dims.Dim_Location[sk].latitude = float(line.latitude)
                   /\ dims.Dim_Location[sk].longitude = float(line.longitude)
                   /\ dims.Dim_Location[sk].location = line.location
            /\ \E sk \in DOMAIN dims.Dim_Time :
                   dims.Dim_Time[sk].time = line.time

\* the n-th fact row references dimension rows that hold the values of the
\* n-th line
FactReferencesOwnValues(n) ==
    LET fact == warehouse.tables.Fact_Earthquake[n]
        line == warehouse.rows[n]
        dims == warehouse.tables
    IN  /\ fact.original_earthquake_id = line.ID
        /\ fact.Fault_SK \in DOMAIN dims.Dim_Fault
        /\ dims.Dim_Fault[fact.Fault_SK].fault = line.fault
        /\ fact.Type_SK \in DOMAIN dims.Dim_Type
        /\ dims.Dim_Type[fact.Type_SK] =
               [magType |-> line.magType, type |-> line.type]
        /\ fact.Location_SK \in DOMAIN dims.Dim_Location
        /\ dims.Dim_Location[fact.Location_SK].latitude = float(line.latitude)
        /\ dims.Dim_Location[fact.Location_SK].longitude =
               float(line.longitude)
        /\ dims.Dim_Location[fact.Location_SK].location = line.location
        /\ fact.Time_SK \in DOMAIN dims.Dim_Time
        /\ dims.Dim_Time[fact.Time_SK].time = line.time
        /\ dims.Dim_Time[fact.Time_SK].components = parse_datetime(line.time)

\* C24 (checked under SpecWarehouse): a fact row is inserted only once the
\* dimensions hold every value of the file and are committed; no lookup of
\* a surrogate key fails; every fact row references dimension rows that
\* hold the values of its line; and after populate_fact_table the fact
\* table has one row per line of the file, in the order of the file.
C24_DimensionsBeforeFacts ==
    /\ warehouse.pc # "KeyError"
    /\ warehouse.pc \in {"collect", "dimensions"} =>
           warehouse.tables.Fact_Earthquake = <<>>
    /\ warehouse.pc \in {"facts", "done"} =>
           /\ DimensionsComplete
           /\ \A n \in DOMAIN warehouse.tables.Fact_Earthquake :
                  FactReferencesOwnValues(n)
    /\ warehouse.pc = "done" =>
           Len(warehouse.tables.Fact_Earthquake) = Len(warehouse.rows)

\* A completed load of a file of several lines, two of them sharing their
\* fault row, one of them without a fault cell, two of them with the same
\* coordinates written differently and so with two location rows.
C24_Witness ==
    /\ warehouse.pc = "done"
    /\ \E m, n \in DOMAIN warehouse.tables.Fact_Earthquake :
           /\ m # n
           /\ warehouse.tables.Fact_Earthquake[m].Fault_SK =
                  warehouse.tables.Fact_Earthquake[n].Fault_SK
    /\ \E n \in DOMAIN warehouse.rows : warehouse.rows[n].fault = None
    /\ \E m, n \in DOMAIN warehouse.tables.Fact_Earthquake :
           /\ warehouse.rows[m].latitude # warehouse.rows[n].latitude
           /\ warehouse.tables.Fact_Earthquake[m].Location_SK #
                  warehouse.tables.Fact_Earthquake[n].Location_SK

-----------------------------------------------------------------------------
(* Further properties of the pairing (Spec).                               *)

(* ------------------------------ C25 ----------------------------------- *)

\* The two events of a pair, each with all the attributes the pair copies.
MainshockOf(p) == PairKey(p)[1]
CandidateOf(p) == PairKey(p)[2]

\* The events reached from those of S by following one pair from its
\* mainshock to its candidate.
CandidatesOf(S) == {CandidateOf(p) : p \in {q \in PairsSoFar : MainshockOf(q) \in S}}

\* The events reached from e by following one pair or more.
RECURSIVE ReachedWithin(_, _)
ReachedWithin(S, n) ==
    IF n = 0 THEN {} ELSE CandidatesOf(S) \cup ReachedWithin(CandidatesOf(S), n - 1)

ReachedFrom(e) == ReachedWithin({e}, Cardinality(PairsSoFar))

\* C25: the pairs never hold both (mainshock a, candidate b) and (mainshock
\* b, candidate a), and no event is reached from itself by following pairs
\* from mainshock to candidate: the candidate of a pair is strictly earlier
\* than its mainshock.
C25_AntisymmetricAcyclic ==
    /\ \A p, q \in PairsSoFar :
           ~(MainshockOf(p) = CandidateOf(q) /\ CandidateOf(p) = MainshockOf(q))
    /\ \A p \in PairsSoFar : MainshockOf(p) \notin ReachedFrom(MainshockOf(p))
    /\ \A p \in PairsSoFar : p.CS_Time < p.MS_Time

\* A completed run whose output holds a chain of pairs: a with b, b with c,
\* and a with c.
C25_Witness ==
    /\ pc = "done"
    /\ \E p, q, r \in Range(output_file.rows) :
           /\ CandidateOf(p) = MainshockOf(q)
           /\ MainshockOf(r) = MainshockOf(p)
           /\ CandidateOf(r) = CandidateOf(q)

(* ------------------------------ C28 ----------------------------------- *)

\* The pairing engine without the test ID != ms_id: the candidates of a
\* mainshock are the rows of the working set inside its window.
candidates_without_id_test(frame, ms_time, max_days_before) ==
    LET max_swarm_time_start == ms_time - max_days_before * SecondsPerDay
        Keep(row) ==
            /\ row.time >= max_swarm_time_start
            /\ row.time < ms_time
    IN  SelectSeq(frame, Keep)

RECURSIVE scan_mainshocks_without_id_test(_, _, _, _, _)
scan_mainshocks_without_id_test(pairs, mainshocks, frame, columns, p) ==
    IF mainshocks = <<>>
    THEN pairs
    ELSE LET ms == Head(mainshocks)
             candidates ==
                 candidates_without_id_test(frame, ms.time,
                                            p.max_days_before_script)
         IN  scan_mainshocks_without_id_test(
                 scan_candidates(pairs, ms, candidates, columns,
                                 p.max_search_radius_km_script),
                 Tail(mainshocks), frame, columns, p)

find_pairs_without_id_test(frame, columns, p) ==
    LET quakes == working_set(frame, p.country_to_filter)
    IN  scan_mainshocks_without_id_test(
            <<>>, select_mainshocks(quakes, p.min_mag_mainshock_script),
            quakes, columns, p)

\* no two rows of the working set carry the same ID
DistinctIDs ==
    \A i, j \in DOMAIN df_earthquakes :
        df_earthquakes[i].ID = df_earthquakes[j].ID => i = j

\* C28: when the IDs of the working set are distinct, the engine writes
\* the pair sequence the engine without the ID test gives; in any case it
\* writes that sequence less the pairs whose candidate has the ID of the
\* mainshock.
C28_IdTestRedundant ==
    pc = "done" =>
        LET without == find_pairs_without_id_test(df, csv.columns, params)
            OtherID(p) == p.CS_ID # p.MS_ID
        IN  /\ DistinctIDs => output_file.rows = without
            /\ output_file.rows = SelectSeq(without, OtherID)

\* The two engines differ: a completed run on a working set where two rows
\* carry the same ID, one inside the window of the other.
C28_EnginesDiffer ==
    /\ pc = "done"
    /\ ~DistinctIDs
    /\ output_file.rows # find_pairs_without_id_test(df, csv.columns, params)

\* A completed run on a full working set of distinct IDs that wrote
\* several pairs.
C28_Witness ==
    /\ pc = "done"
    /\ DistinctIDs
    /\ Len(df_earthquakes) = MaxEvents
    /\ Len(output_file.rows) >= 2

-----------------------------------------------------------------------------
(* One candidate of one mainshock taken through the window, the radius     *)
(* test and the rounding, with thresholds that are not whole numbers.      *)
(*   radius   KmScale-ths of a kilometre                                   *)
(*   window   WindowScale-ths of a day (0.00001 d = 0.864 s)               *)
(*   gap      ms_time - cs_time, whole seconds                             *)

WindowScale == 10 * DayScale

\* the programs other than the evaluation of one candidate
not_evaluation == <<swarm_vars, haversine_call, fetch, reconciled, warehouse>>

CataloguePoints == {<<4200, 1300>>, <<4210, 1305>>, <<3798, 2373>>}

\* 500 km; 1016.537 km, just above the distance of A and the far point;
\* 11.861 km, just below the distance of A and B; 0 km
EvaluationRadii == {500 * KmScale, 10165370, 118610, 0}

\* 29 d; 0.00006 d (5.184 s); 0 d
EvaluationWindows == {29 * WindowScale, 6, 0}

\* 0 s, 1 s, 5 s, 6 s, 5 d, 29 d, 29 d and 1 s
Gaps ==
    {0, 1, 5, 6, 5 * SecondsPerDay, 29 * SecondsPerDay,
     29 * SecondsPerDay + 1}

InitEvaluation ==
    /\ \E ms \in CataloguePoints, cs \in CataloguePoints, gap \in Gaps,
          radius \in EvaluationRadii, window \in EvaluationWindows :
           evaluation =
               [pc |-> "window", ms_lat |-> ms[1], ms_lon |-> ms[2],
                cs_lat |-> cs[1], cs_lon |-> cs[2], gap |-> gap,
                max_search_radius_km |-> radius, max_days_before |-> window,
                Days_Before_Exact |-> NaN, Distance_Exact_km |-> NaN]
    /\ SwarmIdle
    /\ haversine_call = Idle
    /\ fetch = Idle
    /\ reconciled = Idle
    /\ warehouse = Idle

\* ms_time - timedelta(days=max_days_before) <= cs_time < ms_time, on the
\* gap: 0 < gap <= window, a WindowScale-th of a day being 108/125 s
in_window(gap, window) ==
    /\ gap > 0
    /\ gap * 125 <= window * 108

\* the candidate filter on the times
FilterCandidate ==
    /\ evaluation.pc = "window"
    /\ evaluation' =
           [evaluation EXCEPT
                !.pc = IF in_window(evaluation.gap, evaluation.max_days_before)
                       THEN "radius" ELSE "skipped"]
    /\ UNCHANGED not_evaluation

\* the distance, the radius test on the distance as computed, and the pair
\* with the rounded values
EvaluateCandidate ==
    /\ evaluation.pc = "radius"
    /\ LET distance == haversine(evaluation.ms_lat, evaluation.ms_lon,
                                 evaluation.cs_lat, evaluation.cs_lon)
       IN  IF distance <= evaluation.max_search_radius_km
           THEN evaluation' =
                    [evaluation EXCEPT
                         !.pc = "emitted",
                         !.Days_Before_Exact =
                             days_before_rounded(evaluation.gap, 0),
                         !.Distance_Exact_km = round2(distance)]
           ELSE evaluation' = [evaluation EXCEPT !.pc = "skipped"]
    /\ UNCHANGED not_evaluation

NextEvaluation ==
    \/ FilterCandidate
    \/ EvaluateCandidate

SpecEvaluation == InitEvaluation /\ [][NextEvaluation]_vars

(* ------------------------------ C26 ----------------------------------- *)

\* C26 (checked under SpecEvaluation): for every radius and every window,
\* the distance and the days reported in an emitted pair are within the
\* radius and the window.
C26_ReportedWithinThresholds ==
    evaluation.pc = "emitted" =>
        /\ evaluation.Distance_Exact_km <= evaluation.max_search_radius_km
        /\ evaluation.Days_Before_Exact * (WindowScale \div DayScale)
               <= evaluation.max_days_before

\* The part of C26 the code keeps (checked under Spec): with a radius that
\* is a whole number of kilometres and a window that is a whole number of
\* days, the reported values are within the thresholds.
C26_WithinWholeThresholds ==
    \A p \in PairsSoFar :
        /\ p.Distance_Exact_km <= params.max_search_radius_km_script * KmScale
        /\ p.Days_Before_Exact <= params.max_days_before_script * DayScale

-----------------------------------------------------------------------------
(* 0_get_data.py: the fetch loop.  A date is <<year, month, day>>, at       *)
(* midnight like the script's start_date and end_date.                     *)

MaxYears == 2

\* the programs other than the fetch
not_fetch == <<swarm_vars, haversine_call, evaluation, reconciled, warehouse>>

Years == 2023 .. (2022 + MaxYears)

IsLeap(y) == (y % 4 = 0 /\ y % 100 # 0) \/ y % 400 = 0

DaysInMonth(y, m) ==
    IF m = 2 THEN (IF IsLeap(y) THEN 29 ELSE 28)
    ELSE IF m \in {4, 6, 9, 11} THEN 30 ELSE 31

\* date1 < date2
Before(date1, date2) ==
    \/ date1[1] < date2[1]
    \/ date1[1] = date2[1] /\ date1[2] < date2[2]
    \/ date1[1] = date2[1] /\ date1[2] = date2[2] /\ date1[3] < date2[3]

\* Faulty variant: the period ends where it starts.
add_months_none(date, months) == date

\* date + relativedelta(months=months): the month moved on, the year
\* carried, the day cut to the length of the month
add_months(date, months) ==
    LET index == date[2] - 1 + months
        year == date[1] + (index \div 12)
        month == (index % 12) + 1
        day == IF date[3] > DaysInMonth(year, month)
               THEN DaysInMonth(year, month) ELSE date[3]
    IN  <<year, month, day>>

StartDates ==
    {<<2023, 1, 1>>, <<2023, 8, 31>>, <<2023, 10, 31>>, <<2024, 2, 29>>}

EndDates == {<<y, m, d>> : y \in Years, m \in 1..12, d \in {1, 28}}

InitFetch ==
    /\ \E start_date \in StartDates, end_date \in EndDates :
           fetch = [pc |-> "loop", start_date |-> start_date,
                    end_date |-> end_date, current_start |-> start_date,
                    requested |-> <<>>, final_df |-> <<>>, saved |-> FALSE]
    /\ SwarmIdle
    /\ haversine_call = Idle
    /\ evaluation = Idle
    /\ reconciled = Idle
    /\ warehouse = Idle

\* current_end of the iteration: four months on, or end_date
current_end ==
    LET four_months_on == add_months(fetch.current_start, 4)
    IN  IF Before(fetch.end_date, four_months_on)
        THEN fetch.end_date ELSE four_months_on

\* One iteration whose request succeeds with records: they are appended to
\* final_df, and current_start moves to current_end.
FetchRecords ==
    /\ fetch.pc = "loop"
    /\ Before(fetch.current_start, fetch.end_date)
    /\ fetch' =
           [fetch EXCEPT
                !.requested = Append(@, <<fetch.current_start, current_end>>),
                !.final_df = Append(@, <<fetch.current_start, current_end>>),
                !.current_start = current_end]
    /\ UNCHANGED not_fetch

\* One iteration that adds nothing: an empty response, an empty frame, or
\* an exception of the request or of the parsing, caught and printed.
\* current_start moves to current_end all the same.
FetchNoRecords ==
    /\ fetch.pc = "loop"
    /\ Before(fetch.current_start, fetch.end_date)
    /\ fetch' =
           [fetch EXCEPT
                !.requested = Append(@, <<fetch.current_start, current_end>>),
                !.current_start = current_end]
    /\ UNCHANGED not_fetch

\* the loop is left; final_df is saved when it is not empty
SaveCsv ==
    /\ fetch.pc = "loop"
    /\ ~Before(fetch.current_start, fetch.end_date)
    /\ fetch' = [fetch EXCEPT !.pc = "done", !.saved = fetch.final_df # <<>>]
    /\ UNCHANGED not_fetch

NextFetch ==
    \/ FetchRecords
    \/ FetchNoRecords
    \/ SaveCsv

SpecFetch == InitFetch /\ [][NextFetch]_vars

\* Every iteration comes to its end (the request has a timeout, every
\* exception is caught), and so does the script after the loop.
SpecFetchFair == SpecFetch /\ WF_vars(NextFetch)

(* ------------------------------ C27 ----------------------------------- *)

\* The intervals requested so far are contiguous from start_date to
\* current_start, none empty, none longer than four months, and no two of
\* them the same.
IntervalsContiguous ==
    LET req == fetch.requested
    IN  /\ req # <<>> => req[1][1] = fetch.start_date
        /\ req # <<>> => req[Len(req)][2] = fetch.current_start
        /\ req = <<>> => fetch.current_start = fetch.start_date
        /\ \A n \in DOMAIN req :
               /\ Before(req[n][1], req[n][2])
               /\ ~Before(add_months(req[n][1], 4), req[n][2])
               /\ ~Before(fetch.end_date, req[n][2])
               /\ n < Len(req) => req[n][2] = req[n + 1][1]
        /\ \A m, n \in DOMAIN req : req[m] = req[n] => m = n

\* The records are those of requested intervals, each once, in the order
\* of the requests.
RecordsInIntervalOrder ==
    LET got == fetch.final_df
    IN  /\ \A n \in DOMAIN got : got[n] \in Range(fetch.requested)
        /\ \A m, n \in DOMAIN got : m < n => Before(got[m][1], got[n][1])

\* Once the loop is left, the intervals reach end_date: with start_date <
\* end_date they cover [start_date, end_date).
CoversWhenDone ==
    (fetch.pc = "done" /\ Before(fetch.start_date, fetch.end_date)) =>
        /\ fetch.requested # <<>>
        /\ fetch.current_start = fetch.end_date

\* current_start strictly increases on every iteration.
StrictlyForward ==
    fetch'.current_start # fetch.current_start =>
        Before(fetch.current_start, fetch'.current_start)

\* C27 (checked under SpecFetchFair): the loop terminates; current_start
\* strictly increases on every iteration, with or without records; the
\* requested intervals are contiguous, not empty, at most four months long,
\* each requested once, and cover [start_date, end_date) when the loop is
\* left; the records are accumulated in the order of the intervals.
C27_FetchLoopTerminates ==
    /\ [](IntervalsContiguous /\ RecordsInIntervalOrder /\ CoversWhenDone)
    /\ [][StrictlyForward]_vars
    /\ <>(fetch.pc = "done")

\* The loop has been left after several requests, the first for records,
\* one for none, the last cut at end_date, and one of them from a day the
\* month four months on does not have.
C27_Witness ==
    /\ fetch.pc = "done"
    /\ Len(fetch.requested) >= 3
    /\ fetch.final_df # <<>>
    /\ Len(fetch.final_df) < Len(fetch.requested)
    /\ fetch.requested[Len(fetch.requested)][2] #
           add_months(fetch.requested[Len(fetch.requested)][1], 4)
    /\ \E n \in DOMAIN fetch.requested :
           fetch.requested[n][2][3] # fetch.requested[n][1][3]

=============================================================================
